---- MODULE Spec2Model ----
(***************************************************************************)
(* A model of video_convert_x265.py: the candidate scan, the naming rules, *)
(* the per-file conversion job with its outcome classification, and the    *)
(* stop flag shared by the job loop, the SIGINT handler and the socket     *)
(* listener.                                                               *)
(*                                                                         *)
(* File names are sequences of one-character strings, so that the          *)
(* substring, suffix and stem computations of the source are computed,     *)
(* not assumed.  Sizes are integers in hundredths of a MB, the resolution  *)
(* of get_file_size_mb (two decimals).                                     *)
(***************************************************************************)
EXTENDS Integers, Sequences, FiniteSets, TLC

(***************************************************************************)
(* Bounds of the model.                                                    *)
(***************************************************************************)
\* a scanned file name is made of at most this many pieces of NamePieces
MaxPieces == 2
\* a tree handed to run() holds at most this many files
MaxFiles == 2

(***************************************************************************)
(* Program constants (video_convert_x265.py lines 105-129).                *)
(***************************************************************************)
FILENAME_EXTENSION == <<".", "m", "k", "v">>

FILENAME_MARKER_X265 == <<"_", "x", "2", "6", "5">>

FILENAME_MARKER_NOGAIN == <<"_", "x", "2", "6", "5", "n", "o", "g", "a", "i", "n">>

FILENAME_POSTFIX_DONE == <<".", "x", "2", "6", "5", "d", "o", "n", "e">>

FILENAME_EXTENSIONS_BLACKLIST ==
    { <<".", "r", "a", "r">>, <<".", "p", "a", "r", "2">>, <<".", "z", "i", "p">>,
      <<".", "j", "p", "g">>, <<".", "j", "p", "e", "g">>, <<".", "n", "f", "o">>,
      <<".", "s", "r", "t">>, <<".", "i", "d", "x">>, <<".", "s", "u", "b">>,
      <<".", "s", "t", "y", "l", "e">> }

MKV_METADATA_X265NOGAIN == "x265_no_gain"

ENCODER_SETTINGS == "ENCODER_SETTINGS"

LOG_SUFFIX == <<".", "l", "o", "g">>

\* the default template: literal text, and the three tokens "${", name, "}"
\* for each braced placeholder
\* duration (in seconds) after which to cooldown/pause
COOLDOWN_AFTER_SECONDS == 120

CONVERT_CMD_TEMPLATE ==
    <<"ffmpeg -n -hide_banner -i ", "\"", "${", "input", "}", "\"",
      " -map 0 -c:s copy -c:v hevc_nvenc ", "${", "additional", "}", " ",
      "\"", "${", "output", "}", "\"">>

(***************************************************************************)
(* Strings.                                                                *)
(***************************************************************************)
\* the code point of each character a modelled name can hold (str ordering)
CharCode(c) ==
    CASE c = " " -> 32 [] c = "-" -> 45 [] c = "." -> 46
      [] c = "2" -> 50 [] c = "4" -> 52 [] c = "5" -> 53 [] c = "6" -> 54
      [] c = "H" -> 72 [] c = "_" -> 95
      [] c = "a" -> 97 [] c = "b" -> 98 [] c = "c" -> 99 [] c = "d" -> 100
      [] c = "e" -> 101 [] c = "g" -> 103 [] c = "h" -> 104 [] c = "i" -> 105
      [] c = "k" -> 107 [] c = "l" -> 108 [] c = "m" -> 109 [] c = "n" -> 110
      [] c = "o" -> 111 [] c = "r" -> 114 [] c = "s" -> 115 [] c = "t" -> 116
      [] c = "v" -> 118 [] c = "x" -> 120 [] c = "\n" -> 10

\* Python's s < t on str: the first differing character decides, a proper
\* prefix is smaller
StrLess(s, t) ==
    LET differ == {k \in 1..Len(s) : k <= Len(t) /\ s[k] # t[k]}
        first == CHOOSE k \in differ : \A m \in differ : k <= m
    IN  IF differ = {} THEN Len(s) < Len(t)
        ELSE CharCode(s[first]) < CharCode(t[first])

\* s[i:i+len(sub)] == sub  (i is 1-based)
StartsAt(s, sub, i) ==
    /\ i + Len(sub) - 1 <= Len(s)
    /\ SubSeq(s, i, i + Len(sub) - 1) = sub

\* Python's  sub in s
Contains(s, sub) == \E i \in 1..(Len(s) - Len(sub) + 1) : StartsAt(s, sub, i)

\* Python's  s.endswith(sub)
EndsWith(s, sub) ==
    /\ Len(sub) <= Len(s)
    /\ SubSeq(s, Len(s) - Len(sub) + 1, Len(s)) = sub

\* 1-based s.rfind("."), 0 when s holds no dot
RFindDot(s) ==
    LET dots == {i \in 1..Len(s) : s[i] = "."}
    IN  IF dots = {} THEN 0 ELSE CHOOSE i \in dots : \A j \in dots : j <= i

\* s.lstrip(".")
RECURSIVE LStripDots(_)
LStripDots(s) ==
    IF s # <<>> /\ Head(s) = "." THEN LStripDots(Tail(s)) ELSE s

\* s.split(".")
RECURSIVE SplitDots(_)
SplitDots(s) ==
    LET dots == {i \in 1..Len(s) : s[i] = "."}
    IN  IF dots = {} THEN <<s>>
        ELSE LET i == CHOOSE k \in dots : \A j \in dots : k <= j
             IN  <<SubSeq(s, 1, i - 1)>> \o SplitDots(SubSeq(s, i + 1, Len(s)))

(***************************************************************************)
(* pathlib (PurePath of Python 3.9-3.12) on the final path component.      *)
(***************************************************************************)
\* PurePath.suffix
PathSuffix(name) ==
    LET i == RFindDot(name)
    IN  IF 1 < i /\ i < Len(name) THEN SubSeq(name, i, Len(name)) ELSE <<>>

\* PurePath.stem
PathStem(name) ==
    LET i == RFindDot(name)
    IN  IF 1 < i /\ i < Len(name) THEN SubSeq(name, 1, i - 1) ELSE name

\* PurePath.suffixes
PathSuffixes(name) ==
    IF EndsWith(name, <<".">>) THEN <<>>
    ELSE LET parts == SplitDots(LStripDots(name))
         IN  [k \in 1..(Len(parts) - 1) |-> <<".">> \o parts[k + 1]]

\* PurePath.with_suffix(suffix)
WithSuffix(name, suffix) ==
    LET old == PathSuffix(name)
    IN  IF old = <<>> THEN name \o suffix
        ELSE SubSeq(name, 1, Len(name) - Len(old)) \o suffix

\* the value standing for a raised ValueError (no name equals it)
ValueError == <<"ValueError">>

\* PurePath.with_name(name): an empty name and "." are refused
WithName(name) == IF name = <<>> \/ name = <<".">> THEN ValueError ELSE name

\* PurePath.with_stem(stem)
WithStem(name, stem) == WithName(stem \o PathSuffix(name))

(***************************************************************************)
(* Naming rules of the program, on the final path component.               *)
(***************************************************************************)
\* __check_is_donefile
check_is_donefile(name) ==
    \E k \in DOMAIN PathSuffixes(name) : PathSuffixes(name)[k] = FILENAME_POSTFIX_DONE

\* __check_has_mark
check_has_mark(name, marker) == Contains(name, marker)

\* __check_is_blacklisted
check_is_blacklisted(name) == PathSuffix(name) \in FILENAME_EXTENSIONS_BLACKLIST

\* a done name that replaces the extension instead of following it
get_done_filename_replacing(name) == WithSuffix(name, FILENAME_POSTFIX_DONE)

\* _get_done_filename
get_done_filename(name) ==
    IF check_is_donefile(name) THEN name
    ELSE WithSuffix(name, PathSuffix(name) \o FILENAME_POSTFIX_DONE)

\* a marker step that does not look for the marker first
build_filename_marking_again(name, marker, target_ext) ==
    LET filepath_new == WithStem(name, PathStem(name) \o marker)
    IN  IF target_ext # <<>> /\ ~EndsWith(PathSuffix(filepath_new), target_ext)
        THEN WithSuffix(filepath_new, target_ext)
        ELSE filepath_new

\* _build_filename_with_marker; target_ext = <<>> stands for None
build_filename_with_marker(name, marker, target_ext) ==
    IF check_has_mark(name, marker) THEN name
    ELSE LET filepath_new == WithStem(name, PathStem(name) \o marker)
         IN  IF target_ext # <<>> /\ ~EndsWith(PathSuffix(filepath_new), target_ext)
             THEN WithSuffix(filepath_new, target_ext)
             ELSE filepath_new

\* a cleanup that erases nothing
ReSubNothing(s) == s

\* re.sub(r"[ ._-][xhH]264", "", s): leftmost matches, one pass
RECURSIVE ReSub264(_)
ReSub264(s) ==
    IF s = <<>> THEN <<>>
    ELSE IF /\ Len(s) >= 5
            /\ s[1] \in {" ", ".", "_", "-"}
            /\ s[2] \in {"x", "h", "H"}
            /\ SubSeq(s, 3, 5) = <<"2", "6", "4">>
         THEN ReSub264(SubSeq(s, 6, Len(s)))
         ELSE <<Head(s)>> \o ReSub264(Tail(s))

\* ConversionCommand.eliminate_x264
eliminate_x264(name) == WithStem(name, ReSub264(PathStem(name)))

\* ConversionCommand.get_filepath_new
get_filepath_new(name) ==
    eliminate_x264(build_filename_with_marker(name, FILENAME_MARKER_X265,
                                              FILENAME_EXTENSION))

\* ConversionCommand.get_filepath_done
get_filepath_done(name) == get_done_filename(name)

\* the no-gain name of _add_metadata_nogain (no target extension)
get_filepath_nogain(name) ==
    build_filename_with_marker(name, FILENAME_MARKER_NOGAIN, <<>>)

\* the report file of run_conversion_process: the target with suffix ".log"
get_filepath_report(name) == WithSuffix(get_filepath_new(name), LOG_SUFFIX)

(***************************************************************************)
(* State.                                                                  *)
(***************************************************************************)
VARIABLES
    fs,                 \* the tree: path -> file record, for the files that exist
    pc,                 \* where the worker is in run() (or between scans)
    args,               \* the arguments the steps still to come read
    candidates,         \* find_candidates' result
    again,              \* the result of a later find_candidates call
    main_loop_running,  \* the module's global flag
    sig,                \* whether the SIGINT handler of run() is installed
    listener,           \* position of the _socket_listener thread
    i,                  \* number of loop iterations of run() begun so far
    return_code,        \* run()'s accumulator
    proc,               \* the job under way: what the encoder did
    jobs,               \* history: source, outcome and code of each job, in order
    last,               \* history: the job classified last, with its effects
    out,                \* the characters written to output_stream
    result,             \* what run() returned ("none" before)
    template,           \* the convert_cmd_template the caller passes to run()
    filepath,           \* the name a naming function was applied to last
    durations           \* how long an encode can take on this machine, in seconds

vars == <<fs, pc, args, candidates, again, main_loop_running, sig, listener, i,
          return_code, proc, jobs, last, out, result, template, filepath,
          durations>>

(***************************************************************************)
(* Files.  A path is [dir, name]: dir the sequence of directory names      *)
(* below the scanned root, name the final component.                       *)
(***************************************************************************)
Root == <<>>

DirA == << <<"a">> >>

DirB == << <<"b">> >>

MkPath(dir, name) == [dir |-> dir, name |-> name]

\* one video track of pymediainfo
TrackAVC == [internet_media_type |-> "video/H264", format |-> "AVC"]

TrackHEVC == [internet_media_type |-> "video/H265", format |-> "HEVC"]

\* the size standing for get_file_size_mb's -1
NoSize == -100

\* an ordinary large H.264 video: 500.00 MB, timestamps of some earlier day
PlainVideo ==
    [origin |-> "user", mb |-> 50000, broken |-> FALSE, mime |-> "video",
     probe |-> "ok", tracks |-> <<TrackAVC>>, tags |-> {}, atime |-> 0, mtime |-> 0]

\* what a file can be, as far as the scan can tell
FileKinds ==
    { PlainVideo,
      [PlainVideo EXCEPT !.mb = 300],
      [PlainVideo EXCEPT !.broken = TRUE],
      [PlainVideo EXCEPT !.mime = "other"],
      [PlainVideo EXCEPT !.mime = "error"],
      [PlainVideo EXCEPT !.probe = "error"],
      [PlainVideo EXCEPT !.tracks = <<TrackHEVC>>],
      [PlainVideo EXCEPT !.tracks = <<TrackHEVC, TrackAVC>>],
      [PlainVideo EXCEPT !.tracks = <<>>],
      [PlainVideo EXCEPT !.tags = {MKV_METADATA_X265NOGAIN}] }

\* get_file_size_mb, in hundredths of a MB: -1 for a broken symlink and for
\* a path that does not exist (OSError)
get_file_size_mb(t, p) ==
    IF p \notin DOMAIN t THEN NoSize
    ELSE IF t[p].broken THEN NoSize
    ELSE t[p].mb

\* str.lower() on the characters of a suffix
Lower(s) == [k \in DOMAIN s |-> IF s[k] = "H" THEN "h" ELSE s[k]]

\* mime_checker.is_video: "yes", "no", or "error" for a raised exception
is_video(t, p) ==
    IF Lower(PathSuffix(p.name)) = <<".", "s", "u", "b">> THEN "no"
    ELSE IF Lower(PathSuffix(p.name)) = <<".", "m", "t", "s">> THEN "yes"
    ELSE IF t[p].mime = "error" THEN "error"
    ELSE IF t[p].mime = "video" THEN "yes" ELSE "no"

\* check_metadata_isx265
check_metadata_isx265(f) ==
    IF f.tracks = <<>> THEN FALSE
    ELSE ~ \E k \in DOMAIN f.tracks :
               /\ f.tracks[k].internet_media_type # "video/h265"
               /\ f.tracks[k].format # "HEVC"

\* check_metadata_hasdonotmarker
check_metadata_hasdonotmarker(f) == MKV_METADATA_X265NOGAIN \in f.tags

(***************************************************************************)
(* find_candidates.                                                        *)
(***************************************************************************)
\* why find_candidates skips a file, "candidate" when it does not: the body
\* of the loop over files, first hit wins
SkipReason(t, p, min_file_size_mb, forceencode, skip_mime) ==
    IF check_is_blacklisted(p.name) THEN "blacklisted"
    ELSE IF check_has_mark(p.name, FILENAME_MARKER_X265) THEN "marked"
    ELSE IF check_is_donefile(p.name) THEN "done"
    ELSE IF get_file_size_mb(t, p) < 0 THEN "size problem"
    ELSE IF get_file_size_mb(t, p) < min_file_size_mb THEN "too small"
    ELSE IF ~skip_mime /\ is_video(t, p) = "no" THEN "not a video"
    ELSE IF ~skip_mime /\ is_video(t, p) = "error" THEN "mime problem"
    ELSE IF forceencode THEN "candidate"
    ELSE IF t[p].probe = "error" THEN "probe problem"
    ELSE IF check_metadata_isx265(t[p]) THEN "already x265"
    ELSE IF check_metadata_hasdonotmarker(t[p]) THEN "do-not"
    ELSE "candidate"

\* the names of the files directly in a directory
FileNames(t, dir) == {p.name : p \in {q \in DOMAIN t : q.dir = dir}}

\* the names of the directories directly in a directory
DirNames(t, dir) ==
    {p.dir[Len(dir) + 1] :
        p \in {q \in DOMAIN t : /\ Len(q.dir) > Len(dir)
                                /\ SubSeq(q.dir, 1, Len(dir)) = dir}}

\* every order in which the entries of a set can be listed (os.scandir
\* promises none)
RECURSIVE Listings(_)
Listings(S) ==
    IF S = {} THEN {<<>>}
    ELSE UNION {{<<x>> \o l : l \in Listings(S \ {x})} : x \in S}

\* list.sort() on names: insertion into the sorted prefix
RECURSIVE Insert(_, _)
Insert(x, sorted) ==
    IF sorted = <<>> THEN <<x>>
    ELSE IF StrLess(x, Head(sorted)) THEN <<x>> \o sorted
    ELSE <<Head(sorted)>> \o Insert(x, Tail(sorted))

\* a listing left as the file system gave it
UnsortedNames(l) == l

RECURSIVE SortNames(_)
SortNames(l) == IF l = <<>> THEN <<>> ELSE Insert(Head(l), SortNames(Tail(l)))

\* os.walk below dir with dirs.sort() and files.sort(): the paths of the
\* files in the order the loop meets them, for every listing order the
\* file system may answer with
RECURSIVE Walks(_, _)
RECURSIVE WalkDirs(_, _, _)
WalkDirs(t, dir, dirs) ==
    IF dirs = <<>> THEN {<<>>}
    ELSE {w \o rest : w \in Walks(t, Append(dir, Head(dirs))),
                      rest \in WalkDirs(t, dir, Tail(dirs))}

Walks(t, dir) ==
    LET fileorders == {SortNames(l) : l \in Listings(FileNames(t, dir))}
        dirorders == {SortNames(l) : l \in Listings(DirNames(t, dir))}
    IN  UNION { {[k \in 1..Len(files) |-> MkPath(dir, files[k])] \o below :
                    below \in WalkDirs(t, dir, dirs)} :
                files \in fileorders, dirs \in dirorders }

\* the reasons that stand for a failure while a file is examined
ScanFailures == {"size problem", "mime problem", "probe problem"}

\* a loop that a failure ends: the candidates met before the first file that
\* cannot be examined
SelectUntilFailure(t, walk, min_file_size_mb, forceencode, skip_mime) ==
    LET Reason(p) == SkipReason(t, p, min_file_size_mb, forceencode, skip_mime)
        failed == {k \in DOMAIN walk : Reason(walk[k]) \in ScanFailures}
        stop == IF failed = {} THEN Len(walk) + 1
                ELSE CHOOSE k \in failed : \A j \in failed : k <= j
        Test(p) == Reason(p) = "candidate"
    IN  SelectSeq(SubSeq(walk, 1, stop - 1), Test)

\* the files of a walk that are candidates, in the walk's order
Select(t, walk, min_file_size_mb, forceencode, skip_mime) ==
    LET Test(p) == SkipReason(t, p, min_file_size_mb, forceencode, skip_mime) = "candidate"
    IN  SelectSeq(walk, Test)

\* find_candidates: every list the call can return
find_candidates(t, min_file_size_mb, forceencode, skip_mime) ==
    {Select(t, walk, min_file_size_mb, forceencode, skip_mime) : walk \in Walks(t, Root)}

\* the values min_file_size_mb takes: none, and 100.00 MB
MinSizes == {0, 10000}

(***************************************************************************)
(* The trees and arguments the scan is checked on.                         *)
(***************************************************************************)
NamePieces ==
    { <<"a">>, <<".">>, FILENAME_EXTENSION, <<".", "s", "r", "t">>,
      FILENAME_MARKER_X265, FILENAME_POSTFIX_DONE }

\* the names made of 1..k pieces
RECURSIVE NamesOf(_)
NamesOf(k) ==
    IF k = 0 THEN {}
    ELSE NamesOf(k - 1) \cup NamePieces
            \cup {n \o piece : n \in NamesOf(k - 1), piece \in NamePieces}

\* "." and ".." are no file names
ScanNames == NamesOf(MaxPieces) \ { <<".">>, <<".", ".">> }

\* the function with domain {p} mapping p to f
One(p, f) == [q \in {p} |-> f]

\* the files of t and of u, u's where both hold the path
Merge(t, u) ==
    [q \in DOMAIN t \cup DOMAIN u |-> IF q \in DOMAIN u THEN u[q] ELSE t[q]]

\* ordinary files around the file under study: one beside the directories,
\* one in each of two directories
Companions ==
    Merge(One(MkPath(Root, <<"b">> \o FILENAME_EXTENSION), PlainVideo),
          Merge(One(MkPath(DirB, <<"a">> \o FILENAME_EXTENSION), PlainVideo),
                One(MkPath(DirA, <<"b", ".", "a", "v", "i">>), PlainVideo)))

Restrict(t, S) == [q \in S |-> t[q]]

\* the trees of the scans: one file of any name and kind, alone or among
\* the companions
ScanTrees ==
    { Merge(Restrict(Companions, S), One(MkPath(dir, name), kind)) :
        S \in {{}, DOMAIN Companions}, dir \in {Root, DirA},
        name \in ScanNames, kind \in FileKinds }

ScanArgs ==
    [min_file_size_mb : MinSizes, forceencode : BOOLEAN, skip_mime : BOOLEAN]

NoProc == [state |-> "none"]

NoJob == [branch |-> "none"]

InitScan ==
    /\ fs \in ScanTrees
    /\ args \in ScanArgs
    /\ pc = "scan"
    /\ candidates = <<>>
    /\ again = <<>>
    /\ main_loop_running = TRUE
    /\ sig = FALSE
    /\ listener = "none"
    /\ i = 0
    /\ return_code = 0
    /\ proc = NoProc
    /\ jobs = <<>>
    /\ last = NoJob
    /\ out = <<>>
    /\ result = "none"
    /\ filepath = <<>>
    /\ template = CONVERT_CMD_TEMPLATE
    /\ durations = {COOLDOWN_AFTER_SECONDS + 1}

\* a call of find_candidates(rootdir, min_file_size_mb, forceencode, skip_mime)
FindCandidates ==
    /\ pc = "scan"
    /\ candidates' \in find_candidates(fs, args.min_file_size_mb,
                                       args.forceencode, args.skip_mime)
    /\ pc' = "scanned"
    /\ UNCHANGED <<template, filepath, durations, fs, args, again, main_loop_running, sig, listener, i,
                   return_code, proc, jobs, last, out, result>>

\* the next call, with the same arguments
FindCandidatesAgain ==
    /\ pc = "scanned"
    /\ again' \in find_candidates(fs, args.min_file_size_mb,
                                  args.forceencode, args.skip_mime)
    /\ pc' = "rescanned"
    /\ UNCHANGED <<template, filepath, durations, fs, args, candidates, main_loop_running, sig, listener, i,
                   return_code, proc, jobs, last, out, result>>

NextScan == FindCandidates \/ FindCandidatesAgain

SpecScan == InitScan /\ [][NextScan]_vars

(***************************************************************************)
(* run(): the job loop, the encoder, and the classification of its output. *)
(* The tree is changed by the program only: nobody else creates, renames   *)
(* or deletes a file while it runs.                                        *)
(***************************************************************************)
\* ConversionProcessResult
ORIGINAL_MISSING == -3

NOT_SMALLER == -2

NON_ZERO == -1

OK == 0

\* the sizes f (hundredths of a MB, up to 6.00 MB, and 500.00 MB) for which
\* the double f/100 * 0.95 is below the exact product
RoundsBelow95 == {140, 260, 280, 300, 420, 460, 520, 560, 600}

\* the same for f/100 * 0.05
RoundsBelow05 == {140, 280, 460, 560}

\* the comparison with the boundary counted as not smaller
NotSmallerOrEqual(file_mb, newfile_mb) == 95 * file_mb <= 100 * newfile_mb

\* (file_mb * 0.95) < newfile_mb, in doubles: away from equality the exact
\* comparison, at equality decided by the rounding of the product
NotSmaller(file_mb, newfile_mb) ==
    \/ 95 * file_mb < 100 * newfile_mb
    \/ 95 * file_mb = 100 * newfile_mb /\ file_mb \in RoundsBelow95

\* a product counted as meaningful as soon as it is not empty
MeaningfulWhenNotEmpty(file_mb, newfile_mb) == newfile_mb > 0

\* newfile_mb > (file_mb * 0.05), in doubles
Meaningful(file_mb, newfile_mb) ==
    \/ 100 * newfile_mb > 5 * file_mb
    \/ 100 * newfile_mb = 5 * file_mb /\ file_mb \in RoundsBelow05

\* the paths a job derives from its source
TargetOf(p) == MkPath(p.dir, get_filepath_new(p.name))

DoneOf(p) == MkPath(p.dir, get_filepath_done(p.name))

NoGainOf(p) == MkPath(p.dir, get_filepath_nogain(p.name))

ReportOf(p) == MkPath(p.dir, get_filepath_report(p.name))

(***************************************************************************)
(* Commands.  A template is a sequence of tokens: literal text, and the    *)
(* three tokens "${", name, "}" for a braced placeholder.  A rendered     *)
(* command is the sequence of the literal tokens and the characters of the *)
(* substituted paths.                                                      *)
(***************************************************************************)
KeyError == <<"KeyError">>

AssertionError == <<"AssertionError">>

IsError(x) == x \in {ValueError, KeyError, AssertionError}

\* string.Template.substitute: every braced placeholder is replaced by the
\* value of its name, an unknown name raises KeyError, an unclosed brace
\* ValueError; the first offending placeholder decides
RECURSIVE Substitute(_, _)
Substitute(tpl, mapping) ==
    IF tpl = <<>> THEN <<>>
    ELSE IF Head(tpl) = "${"
    THEN IF Len(tpl) < 3 \/ tpl[IF Len(tpl) < 3 THEN 1 ELSE 3] # "}"
         THEN ValueError
         ELSE IF tpl[2] \notin DOMAIN mapping THEN KeyError
         ELSE LET rest == Substitute(SubSeq(tpl, 4, Len(tpl)), mapping)
              IN IF IsError(rest) THEN rest ELSE mapping[tpl[2]] \o rest
    ELSE LET rest == Substitute(Tail(tpl), mapping)
         IN IF IsError(rest) THEN rest ELSE <<Head(tpl)>> \o rest

Whitespace == {" ", "\n"}

\* str.strip: leading and trailing whitespace characters are dropped
RECURSIVE Strip(_)
Strip(s) ==
    IF s = <<>> THEN s
    ELSE IF Head(s) \in Whitespace THEN Strip(Tail(s))
    ELSE IF s[Len(s)] \in Whitespace THEN Strip(SubSeq(s, 1, Len(s) - 1))
    ELSE s

\* the parts of the working directory of the process; rootdir is "."
Cwd == << <<"/">>, <<"w">> >>

IsAbsolute(p) == p.dir # <<>> /\ Head(p.dir) = <<"/">>

\* Path.absolute: a relative path is put under the working directory, an
\* absolute one is returned as it is
Absolute(p) == IF IsAbsolute(p) THEN p ELSE MkPath(Cwd \o p.dir, p.name)

RECURSIVE JoinDir(_)
JoinDir(dir) ==
    IF dir = <<>> THEN <<>>
    ELSE IF Head(dir) = <<"/">> THEN <<"/">> \o JoinDir(Tail(dir))
    ELSE Head(dir) \o <<"/">> \o JoinDir(Tail(dir))

\* str(path): the parts joined by the separator
PathStr(p) == JoinDir(p.dir) \o p.name

\* the pieces of s between the occurrences of sep
RECURSIVE SplitOn(_, _)
SplitOn(s, sep) ==
    IF \A k \in DOMAIN s : s[k] # sep THEN <<s>>
    ELSE LET k == CHOOSE j \in DOMAIN s :
                      s[j] = sep /\ \A h \in 1..(j - 1) : s[h] # sep
         IN <<SubSeq(s, 1, k - 1)>> \o SplitOn(SubSeq(s, k + 1, Len(s)), sep)

\* Path(text): the parts between the separators, empty parts and "." dropped,
\* a leading separator kept as the anchor; the last part is the name
PathOf(text) ==
    LET pieces == SplitOn(text, "/")
        parts == SelectSeq(pieces, LAMBDA c : c # <<>> /\ c # <<".">>)
        anchor == IF text # <<>> /\ Head(text) = "/" THEN << <<"/">> >> ELSE <<>>
    IN IF parts = <<>> THEN MkPath(anchor, <<>>)
       ELSE MkPath(anchor \o SubSeq(parts, 1, Len(parts) - 1),
                   parts[Len(parts)])

\* ConversionCommand.__init__: the assertions on the template text; each
\* looks for the word anywhere in the text, inside a placeholder or not
ConversionCommand(tpl, p) ==
    IF \A word \in {"input", "output", "additional"} :
           \E k \in DOMAIN tpl : tpl[k] = word
    THEN [template |-> tpl, filepath |-> p]
    ELSE AssertionError

\* ConversionCommand.get_command: the template with input and output
\* substituted by the absolute paths, additional by the empty string
get_command(cmd) ==
    LET new == get_filepath_new(cmd.filepath.name)
    IN IF IsError(new) THEN new
       ELSE LET text == Substitute(cmd.template,
                            [input |-> PathStr(Absolute(cmd.filepath)),
                             output |-> PathStr(Absolute(
                                            MkPath(cmd.filepath.dir, new))),
                             additional |-> <<>>])
            IN IF IsError(text) THEN text ELSE Strip(text)

\* output_stream.write of one text followed by the line terminator
WriteLine(stream, text) == stream \o text \o <<"\n">>

\* the lines a reader of the stream gets
Lines(stream) ==
    LET pieces == SplitOn(stream, "\n")
    IN IF pieces[Len(pieces)] = <<>> THEN SubSeq(pieces, 1, Len(pieces) - 1)
       ELSE pieces

\* run() with just_list: one write per candidate
RECURSIVE WriteList(_, _)
WriteList(stream, found) ==
    IF found = <<>> THEN stream
    ELSE WriteList(WriteLine(stream, PathStr(Absolute(Head(found)))),
                   Tail(found))

\* run() with an output stream: one write per command; the first command
\* that cannot be rendered ends the writing with its exception
RECURSIVE WriteCommands(_, _)
WriteCommands(stream, commands) ==
    IF commands = <<>> THEN [out |-> stream, raised |-> <<>>]
    ELSE LET text == get_command(Head(commands))
         IN IF IsError(text) THEN [out |-> stream, raised |-> text]
            ELSE WriteCommands(WriteLine(stream, text), Tail(commands))

\* the keys of meta_custom
META_CUSTOM ==
    { "original_filename", "original_size_mb", "newfile_size_mb",
      "encoding_duration", "encoding_duration_seconds", "encoding_template",
      "encoding_time" }

\* the tags of the document _add_metadata_nogain writes
NoGainTags == META_CUSTOM \cup {MKV_METADATA_X265NOGAIN}

\* the tags of the document written to a target
DoneTags == META_CUSTOM \cup {ENCODER_SETTINGS}

\* os.remove / Path.unlink of an existing path
Remove(t, p) == Restrict(t, DOMAIN t \ {p})

\* os.rename of an existing path, replacing what is at dst
Rename(t, src, dst) == Merge(Remove(t, src), One(dst, t[src]))

\* mkv_add_metadata_xml on an existing file without the restoring of times
\* (used to show what the restoring is for)
mkv_add_metadata_xml_plain(t, p, tags, keep_times, ok) ==
    IF ok THEN Merge(t, One(p, [t[p] EXCEPT !.tags = tags, !.atime = 1, !.mtime = 1]))
    ELSE t

\* mkv_add_metadata_xml on an existing file: mkvpropedit replaces the global
\* tags and so touches the file (ok), or fails and leaves it alone; then the
\* times read before are set again when keep_times
mkv_add_metadata_xml(t, p, tags, keep_times, ok) ==
    LET written == IF ok THEN [t[p] EXCEPT !.tags = tags, !.atime = 1, !.mtime = 1]
                   ELSE t[p]
        restored == IF keep_times
                    THEN [written EXCEPT !.atime = t[p].atime, !.mtime = t[p].mtime]
                    ELSE written
    IN  Merge(t, One(p, restored))

\* what the encoder writes: an H.265 Matroska file of the given size
Encoded(mb) ==
    [origin |-> "encoder", mb |-> mb, broken |-> FALSE, mime |-> "video",
     probe |-> "ok", tracks |-> <<TrackHEVC>>, tags |-> {}, atime |-> 1, mtime |-> 1]

\* what _create_report_file writes: a short text file
ReportFile ==
    [origin |-> "report", mb |-> 0, broken |-> FALSE, mime |-> "other",
     probe |-> "ok", tracks |-> <<>>, tags |-> {}, atime |-> 1, mtime |-> 1]

\* the sizes an encoder leaves for an original of f hundredths of a MB:
\* 5 %, 20 %, 95 % and 98 % of it
Produced(f) == {f \div 20, f \div 5, (f * 19) \div 20, (f * 49) \div 50}

\* the files of the trees of a run: two names with one target, and a small
\* file with a trailing dot in its name, in a directory
RunFiles ==
    Merge(One(MkPath(Root, <<"a">> \o FILENAME_EXTENSION), PlainVideo),
    Merge(One(MkPath(Root, <<"a", ".", "a", "v", "i">>), PlainVideo),
          One(MkPath(DirA, <<"a", ".">>), [PlainVideo EXCEPT !.mb = 300])))

RunTrees ==
    { Restrict(RunFiles, S) :
        S \in {T \in SUBSET DOMAIN RunFiles : Cardinality(T) <= MaxFiles} }

\* the arguments of run() the job loop reads; mode is "list" for just_list,
\* "commands" for an output_stream without just_list, "run" without both
RunArgs ==
    [mode : {"run", "list", "commands"}, keep : BOOLEAN,
     abortonerrror : BOOLEAN, create_report : BOOLEAN, signalling : BOOLEAN]

NoArgs == [mode |-> "none"]

Init ==
    /\ fs \in RunTrees
    /\ args = NoArgs
    /\ pc = "idle"
    /\ candidates = <<>>
    /\ again = <<>>
    /\ main_loop_running = TRUE
    /\ sig = FALSE
    /\ listener = "none"
    /\ i = 0
    /\ return_code = 0
    /\ proc = NoProc
    /\ jobs = <<>>
    /\ last = NoJob
    /\ out = <<>>
    /\ result = "none"
    /\ filepath = <<>>
    /\ template = CONVERT_CMD_TEMPLATE
    /\ durations = {COOLDOWN_AFTER_SECONDS + 1}

\* run() up to the job loop: the scan, the early returns, the handler and
\* the listener thread
RunCall ==
    /\ pc = "idle"
    /\ \E min_file_size_mb \in MinSizes, reencode \in BOOLEAN,
          skip_mime \in BOOLEAN :
         \E found \in find_candidates(fs, min_file_size_mb, reencode, skip_mime),
            a \in RunArgs :
            LET conversion_commands ==
                    [k \in DOMAIN found |-> ConversionCommand(template, found[k])]
                written == WriteCommands(out, conversion_commands)
            IN
            /\ args' = a
            /\ candidates' = found
            /\ IF found = <<>>
               THEN /\ pc' = "returned"
                    /\ result' = 0
                    /\ UNCHANGED <<sig, listener, out>>
               ELSE IF a.mode = "list"
               THEN /\ pc' = "returned"
                    /\ result' = 0
                    /\ out' = WriteList(out, found)
                    /\ UNCHANGED <<sig, listener>>
               ELSE IF \E k \in DOMAIN found : IsError(conversion_commands[k])
               THEN /\ pc' = "crashed"
                    /\ result' = AssertionError[1]
                    /\ UNCHANGED <<sig, listener, out>>
               ELSE IF a.mode = "commands"
               THEN /\ pc' = IF written.raised = <<>> THEN "returned"
                             ELSE "crashed"
                    /\ result' = IF written.raised = <<>> THEN 0
                                 ELSE written.raised[1]
                    /\ out' = written.out
                    /\ UNCHANGED <<sig, listener>>
               ELSE /\ pc' = "loop"
                    /\ sig' = (sig \/ a.signalling)
                    /\ listener' = IF a.signalling THEN "check" ELSE listener
                    /\ UNCHANGED <<result, out>>
    /\ i' = 0
    /\ return_code' = 0
    /\ UNCHANGED <<template, filepath, durations, fs, again, main_loop_running, proc, jobs, last>>

\* a loop that does not look at the flag
NeverStopped(flag) == FALSE

\* "if not main_loop_running"
Stopped(flag) == ~flag

\* the for loop has no command left
LoopExhausted ==
    /\ pc = "loop"
    /\ i = Len(candidates)
    /\ pc' = "finish"
    /\ UNCHANGED <<template, filepath, durations, fs, args, candidates, again, main_loop_running, sig,
                   listener, i, return_code, proc, jobs, last, out, result>>

\* "if not main_loop_running: break"
LoopStopped ==
    /\ pc = "loop"
    /\ i < Len(candidates)
    /\ Stopped(main_loop_running)
    /\ pc' = "finish"
    /\ UNCHANGED <<template, filepath, durations, fs, args, candidates, again, main_loop_running, sig,
                   listener, i, return_code, proc, jobs, last, out, result>>

\* the next command enters run_conversion_process
JobStart ==
    /\ pc = "loop"
    /\ i < Len(candidates)
    /\ ~Stopped(main_loop_running)
    /\ i' = i + 1
    /\ LET cmd_str == get_command(ConversionCommand(template, candidates[i + 1]))
       IN IF IsError(cmd_str)
          THEN pc' = "crashed" /\ result' = cmd_str[1]
          ELSE pc' = "encoding" /\ UNCHANGED result
    /\ UNCHANGED <<template, filepath, durations, fs, args, candidates, again, main_loop_running, sig,
                   listener, return_code, proc, jobs, last, out>>

\* the tree after the report file is written, when one is asked for
Reported(t, src) ==
    IF args.create_report THEN Merge(t, One(ReportOf(src), ReportFile)) ELSE t

\* the encoder from Popen to wait(), the time that took (t_duration), then
\* the report file.  With "-n" the
\* encoder writes no file that exists; it exits 0 only if it could read its
\* input and write its output, or wrote nothing at all.
Encode ==
    /\ pc = "encoding"
    /\ \E seconds \in durations :
         LET src == candidates[i]
             target == TargetOf(src)
             free == src \in DOMAIN fs /\ target \notin DOMAIN fs
         IN  \/ /\ proc' = [state |-> "unlaunched", seconds |-> seconds]
                /\ fs' = Reported(fs, src)
             \/ \E partial \in BOOLEAN :
                  /\ proc' = [state |-> "exited", returncode |-> 17,
                              seconds |-> seconds]
                  /\ fs' = Reported(IF partial /\ free
                                    THEN Merge(fs, One(target, Encoded(100)))
                                    ELSE fs, src)
             \/ /\ free
                /\ \E mb \in Produced(fs[src].mb) \cup {NoSize} :
                     /\ proc' = [state |-> "exited", returncode |-> 0,
                                 seconds |-> seconds]
                     /\ fs' = Reported(IF mb = NoSize THEN fs
                                       ELSE Merge(fs, One(target, Encoded(mb))), src)
    /\ pc' = "classify"
    /\ UNCHANGED <<template, filepath, durations, args, candidates, again, main_loop_running, sig, listener,
                   i, return_code, jobs, last, out, result>>

\* "proc is None or proc.returncode != 0"
ProcFailed(p) == IF p.state = "unlaunched" THEN TRUE ELSE p.returncode # 0

\* the code of an outcome of run_conversion_process
ResultCode(branch) ==
    CASE branch = "failed" -> NON_ZERO
      [] branch = "nogain" -> NOT_SMALLER
      [] branch = "missing" -> ORIGINAL_MISSING
      [] OTHER -> OK

\* what the history keeps of a job: its paths, what the encoder did, the
\* sizes read, the tree as it was when the classification began, the calls
\* made on the tree in their order, whether the job slept to cool down, and
\* the code returned
JobRecord(branch, file_mb, newfile_mb, ops) ==
    [src |-> candidates[i], target |-> TargetOf(candidates[i]), proc |-> proc,
     keep |-> args.keep, file_mb |-> file_mb, newfile_mb |-> newfile_mb,
     tree |-> fs, branch |-> branch, ops |-> ops, slept |-> FALSE,
     code |-> ResultCode(branch)]

\* a cooldown whenever the encode was slow, whatever the size of the file
CooldownOnDuration(file_mb, seconds) == seconds > COOLDOWN_AFTER_SECONDS

\* "if file_mb > 100 and t_duration.total_seconds() > COOLDOWN_AFTER_SECONDS",
\* file_mb in hundredths of a MB
Cooldown(file_mb, seconds) ==
    file_mb > 100 * 100 /\ seconds > COOLDOWN_AFTER_SECONDS

\* the end of run_conversion_process that the jobs reach which did not
\* return before: sleep(COOLDOWN_SECONDS) or not, then "return OK"
Cooled(job) == [job EXCEPT !.slept = Cooldown(job.file_mb, job.proc.seconds)]

\* a value other than "return_code += ..." would leave in return_code
Overwrite(total, code) == code

\* an aggregate that counts the codes as magnitudes
AccumulateMagnitude(total, code) == total - code

\* "return_code += run_conversion_process(...)"
Accumulate(total, code) == total + code

\* the loop going on after an error whatever abortonerrror says
AbortNever(total, abortonerrror) == FALSE

\* "if return_code < 0 and abortonerrror"
AbortNow(total, abortonerrror) == total < 0 /\ abortonerrror

\* run_conversion_process returns and run() adds the code to return_code,
\* then breaks on "return_code < 0 and abortonerrror"
Account(job) ==
    /\ return_code' = Accumulate(return_code, job.code)
    /\ jobs' = Append(jobs, [src |-> job.src, branch |-> job.branch,
                             code |-> job.code])
    /\ last' = job
    /\ proc' = NoProc
    /\ pc' = IF AbortNow(Accumulate(return_code, job.code), args.abortonerrror)
             THEN "finish" ELSE "loop"
    /\ UNCHANGED <<template, filepath, durations, args, candidates, again, main_loop_running, sig, listener,
                   i, out, result>>

\* an exception leaves run_conversion_process and run()
Raise(exception) ==
    /\ pc' = "crashed"
    /\ result' = exception
    /\ UNCHANGED <<template, filepath, durations, args, candidates, again, main_loop_running, sig, listener,
                   i, return_code, proc, jobs, last, out>>

\* a left-over removed even when it is to be kept
LeftOverAlways(t, target, keep) == target \in DOMAIN t

\* "if cmd.get_filepath_new().exists() and not keep"
LeftOver(t, target, keep) == target \in DOMAIN t /\ ~keep

\* "if proc is None or proc.returncode != 0": the left-over target is
\* removed unless keep; os.remove may fail, which is logged
ClassifyFailed ==
    /\ pc = "classify"
    /\ ProcFailed(proc)
    /\ LET target == TargetOf(candidates[i])
           leftover == LeftOver(fs, target, args.keep)
       IN  \E removed \in BOOLEAN :
             /\ fs' = IF leftover /\ removed THEN Remove(fs, target) ELSE fs
             /\ Account(JobRecord("failed", "unread", "unread",
                     IF ~leftover THEN <<>>
                     ELSE IF removed THEN << "remove target" >>
                     ELSE << "remove target fails" >>))

\* "if (file_mb * 0.95) < newfile_mb": _add_metadata_nogain tags and
\* renames the original, then the target is unlinked unless keep
ClassifyNoGain ==
    /\ pc = "classify"
    /\ ~ProcFailed(proc)
    /\ LET src == candidates[i]
           target == TargetOf(src)
           file_mb == get_file_size_mb(fs, src)
           newfile_mb == get_file_size_mb(fs, target)
       IN  /\ NotSmaller(file_mb, newfile_mb)
           /\ IF src \notin DOMAIN fs
              THEN /\ fs' = fs
                   /\ Raise("FileNotFoundError")
              ELSE \E ok \in BOOLEAN :
                     LET tagged == mkv_add_metadata_xml(fs, src, NoGainTags, TRUE, ok)
                         renamed == Rename(tagged, src, NoGainOf(src))
                         tag == IF ok THEN "tag original" ELSE "tag original fails"
                     IN  IF args.keep
                         THEN /\ fs' = renamed
                              /\ Account(JobRecord("nogain", file_mb, newfile_mb,
                                      << tag, "restore times", "rename original" >>))
                         ELSE IF target \in DOMAIN renamed
                         THEN /\ fs' = Remove(renamed, target)
                              /\ Account(JobRecord("nogain", file_mb, newfile_mb,
                                      << tag, "restore times", "rename original",
                                         "unlink target" >>))
                         ELSE /\ fs' = renamed
                              /\ Raise("FileNotFoundError")

\* "if newfile_mb > (file_mb * 0.05)": the original is renamed to its done
\* name, then the target is tagged, then the cooldown check
ClassifyDone ==
    /\ pc = "classify"
    /\ ~ProcFailed(proc)
    /\ LET src == candidates[i]
           target == TargetOf(src)
           file_mb == get_file_size_mb(fs, src)
           newfile_mb == get_file_size_mb(fs, target)
       IN  /\ ~NotSmaller(file_mb, newfile_mb)
           /\ Meaningful(file_mb, newfile_mb)
           /\ IF src \notin DOMAIN fs
              THEN /\ fs' = fs
                   /\ Account(JobRecord("missing", file_mb, newfile_mb, <<>>))
              ELSE IF target \notin DOMAIN Rename(fs, src, DoneOf(src))
              THEN /\ fs' = Rename(fs, src, DoneOf(src))
                   /\ Raise("FileNotFoundError")
              ELSE \E ok \in BOOLEAN :
                     /\ fs' = mkv_add_metadata_xml(Rename(fs, src, DoneOf(src)),
                                                   target, DoneTags, FALSE, ok)
                     /\ Account(Cooled(JobRecord("done", file_mb, newfile_mb,
                             << "rename original",
                                IF ok THEN "tag target" ELSE "tag target fails" >>)))

\* neither branch is taken: the job touches nothing, goes on to the cooldown
\* check and returns OK
ClassifyTiny ==
    /\ pc = "classify"
    /\ ~ProcFailed(proc)
    /\ LET file_mb == get_file_size_mb(fs, candidates[i])
           newfile_mb == get_file_size_mb(fs, TargetOf(candidates[i]))
       IN  /\ ~NotSmaller(file_mb, newfile_mb)
           /\ ~Meaningful(file_mb, newfile_mb)
           /\ fs' = fs
           /\ Account(Cooled(JobRecord("tiny", file_mb, newfile_mb, <<>>)))

\* an end of run() that joins the listener thread without a timeout
FinishJoining ==
    /\ pc = "finish"
    /\ listener \in {"none", "exited"}
    /\ main_loop_running' = IF args.signalling THEN FALSE ELSE main_loop_running
    /\ result' = return_code
    /\ pc' = "returned"
    /\ UNCHANGED <<template, filepath, durations, fs, args, candidates, again, sig,
                   listener, i, return_code, proc, jobs, last, out>>

\* an end of run() that arms the flag for the next run
FinishRearming ==
    /\ pc = "finish"
    /\ main_loop_running' = TRUE
    /\ result' = return_code
    /\ pc' = "returned"
    /\ UNCHANGED <<template, filepath, durations, fs, args, candidates, again, sig,
                   listener, i, return_code, proc, jobs, last, out>>

\* after the loop: the flag is cleared for the listener, the thread is joined
\* for at most the timeout, wherever it is, and run() returns
Finish ==
    /\ pc = "finish"
    /\ main_loop_running' = IF args.signalling THEN FALSE ELSE main_loop_running
    /\ result' = return_code
    /\ pc' = "returned"
    /\ UNCHANGED <<template, filepath, durations, fs, args, candidates, again, sig, listener, i, return_code,
                   proc, jobs, last, out>>

\* the interrupt without a handler of its own: KeyboardInterrupt is raised
\* in the worker, wherever it is
CtrlCDefault ==
    /\ sig
    /\ pc \in {"loop", "encoding", "classify", "finish"}
    /\ pc' = "crashed"
    /\ result' = "KeyboardInterrupt"
    /\ main_loop_running' = FALSE
    /\ UNCHANGED <<template, filepath, durations, fs, args, candidates, again, sig,
                   listener, i, return_code, proc, jobs, last, out>>

\* ctrl_c_handler, once installed
CtrlC ==
    /\ sig
    /\ main_loop_running' = FALSE
    /\ UNCHANGED <<template, filepath, durations, fs, pc, args, candidates, again, sig, listener, i,
                   return_code, proc, jobs, last, out, result>>

\* _socket_listener at its "while main_loop_running": the port is opened,
\* or the thread ends
ListenerCheck ==
    /\ listener = "check"
    /\ listener' = IF main_loop_running THEN "accepting" ELSE "exited"
    /\ UNCHANGED <<template, filepath, durations, fs, pc, args, candidates, again, main_loop_running, sig, i,
                   return_code, proc, jobs, last, out, result>>

\* accept() returns a connection, whatever the peer sends or does not send:
\* nothing is read from it
ListenerAccept ==
    /\ listener = "accepting"
    /\ listener' = "connected"
    /\ UNCHANGED <<template, filepath, durations, fs, pc, args, candidates, again, main_loop_running, sig,
                   i, return_code, proc, jobs, last, out, result>>

\* a listener that waits for a word from the peer and, as none is read,
\* leaves the flag alone
ListenerFlagOnStopWord ==
    /\ listener = "connected"
    /\ listener' = "accepting"
    /\ UNCHANGED <<template, filepath, durations, fs, pc, args, candidates, again, main_loop_running, sig,
                   i, return_code, proc, jobs, last, out, result>>

\* "main_loop_running = False" after the accept, then accept() again on the
\* same socket
ListenerFlag ==
    /\ listener = "connected"
    /\ main_loop_running' = FALSE
    /\ listener' = "accepting"
    /\ UNCHANGED <<template, filepath, durations, fs, pc, args, candidates, again, sig, i,
                   return_code, proc, jobs, last, out, result>>

\* accept() times out
ListenerTimeout ==
    /\ listener = "accepting"
    /\ listener' = "check"
    /\ UNCHANGED <<template, filepath, durations, fs, pc, args, candidates, again, main_loop_running, sig, i,
                   return_code, proc, jobs, last, out, result>>

\* a later find_candidates call on the tree the run left, with any flags
ScanAfterRun ==
    /\ pc = "returned"
    /\ \E min_file_size_mb \in MinSizes, forceencode \in BOOLEAN,
          skip_mime \in BOOLEAN :
         again' \in find_candidates(fs, min_file_size_mb, forceencode, skip_mime)
    /\ pc' = "rescanned"
    /\ UNCHANGED <<template, filepath, durations, fs, args, candidates, main_loop_running, sig, listener, i,
                   return_code, proc, jobs, last, out, result>>

Next ==
    \/ RunCall
    \/ LoopExhausted
    \/ LoopStopped
    \/ JobStart
    \/ Encode
    \/ ClassifyFailed
    \/ ClassifyNoGain
    \/ ClassifyDone
    \/ ClassifyTiny
    \/ Finish
    \/ CtrlC
    \/ ListenerCheck
    \/ ListenerAccept
    \/ ListenerFlag
    \/ ListenerTimeout
    \/ ScanAfterRun

Spec == Init /\ [][Next]_vars

(***************************************************************************)
(* The run on one tree of two files, with the listener thread scheduled    *)
(* as the code relies on: the thread takes its next step, and its accept() *)
(* returns within the timeout set by settimeout(2), with a connection or   *)
(* with socket.timeout.  Nothing is assumed about the worker, the caller,  *)
(* the interrupt or the peers of the socket.                               *)
(***************************************************************************)
LiveTree ==
    Restrict(RunFiles, {MkPath(Root, <<"a">> \o FILENAME_EXTENSION),
                        MkPath(DirA, <<"a", ".">>)})

InitLive == Init /\ fs = LiveTree

SpecListener ==
    /\ InitLive
    /\ [][Next]_vars
    /\ WF_vars(ListenerCheck)
    /\ WF_vars(ListenerFlag)
    /\ WF_vars(ListenerAccept \/ ListenerTimeout)

(***************************************************************************)
(* The run on the same tree with the worker scheduled as the code relies   *)
(* on: the thread that called run() takes its next step, and an encoder    *)
(* that was started closes its stream and exits.  Every step of the thread *)
(* and every exit of an encoder moves pc, and nothing else does, so the    *)
(* two conditions are stated on pc.  Nothing is assumed about the listener *)
(* thread, the interrupt or the peers of the socket.                       *)
(***************************************************************************)
\* proc.stderr.read(1) returns nothing more and proc.wait() returns
EncoderExits == pc = "encoding" /\ pc' = "classify"

\* the thread in run() goes on from where it stands
WorkerSteps ==
    /\ pc \in {"loop", "classify", "finish"}
    /\ pc' \in {"loop", "encoding", "finish", "returned", "crashed"} \ {pc}

SpecLive ==
    /\ InitLive
    /\ [][Next]_vars
    /\ WF_pc(WorkerSteps)
    /\ WF_pc(EncoderExits)

(***************************************************************************)
(* The run on a machine where an encode takes 120 or 121 seconds, on a     *)
(* tree with a file of 500 MB and one of exactly 100 MB.                   *)
(***************************************************************************)
InitCooldown ==
    /\ fs = Merge(One(MkPath(Root, <<"a">> \o FILENAME_EXTENSION), PlainVideo),
                  One(MkPath(DirA, <<"b">> \o FILENAME_EXTENSION),
                      [PlainVideo EXCEPT !.mb = 100 * 100]))
    /\ args = NoArgs
    /\ pc = "idle"
    /\ candidates = <<>>
    /\ again = <<>>
    /\ main_loop_running = TRUE
    /\ sig = FALSE
    /\ listener = "none"
    /\ i = 0
    /\ return_code = 0
    /\ proc = NoProc
    /\ jobs = <<>>
    /\ last = NoJob
    /\ out = <<>>
    /\ result = "none"
    /\ filepath = <<>>
    /\ template = CONVERT_CMD_TEMPLATE
    /\ durations = {COOLDOWN_AFTER_SECONDS, COOLDOWN_AFTER_SECONDS + 1}

SpecCooldown == InitCooldown /\ [][Next]_vars

(***************************************************************************)
(* The run on a tree with a file of 500 MB and one of 2.80 MB: 5 % of the  *)
(* first is a product the double comparison counts as not above 5 %, 5 %   *)
(* of the second one it counts as above.                                   *)
(***************************************************************************)
InitTiny ==
    /\ fs = Merge(One(MkPath(Root, <<"a">> \o FILENAME_EXTENSION), PlainVideo),
                  One(MkPath(DirA, <<"b">> \o FILENAME_EXTENSION),
                      [PlainVideo EXCEPT !.mb = 280]))
    /\ args = NoArgs
    /\ pc = "idle"
    /\ candidates = <<>>
    /\ again = <<>>
    /\ main_loop_running = TRUE
    /\ sig = FALSE
    /\ listener = "none"
    /\ i = 0
    /\ return_code = 0
    /\ proc = NoProc
    /\ jobs = <<>>
    /\ last = NoJob
    /\ out = <<>>
    /\ result = "none"
    /\ filepath = <<>>
    /\ template = CONVERT_CMD_TEMPLATE
    /\ durations = {COOLDOWN_AFTER_SECONDS + 1}

SpecTiny == InitTiny /\ [][Next]_vars

(***************************************************************************)
(* The run on a directory that holds a video named "a." beside a video     *)
(* named "a.mkv".                                                          *)
(***************************************************************************)
InitSameDir ==
    /\ fs = Merge(One(MkPath(Root, <<"a">> \o FILENAME_EXTENSION), PlainVideo),
                  One(MkPath(Root, <<"a", ".">>), [PlainVideo EXCEPT !.mb = 300]))
    /\ args = NoArgs
    /\ pc = "idle"
    /\ candidates = <<>>
    /\ again = <<>>
    /\ main_loop_running = TRUE
    /\ sig = FALSE
    /\ listener = "none"
    /\ i = 0
    /\ return_code = 0
    /\ proc = NoProc
    /\ jobs = <<>>
    /\ last = NoJob
    /\ out = <<>>
    /\ result = "none"
    /\ filepath = <<>>
    /\ template = CONVERT_CMD_TEMPLATE
    /\ durations = {COOLDOWN_AFTER_SECONDS + 1}

SpecSameDir == InitSameDir /\ [][Next]_vars

(***************************************************************************)
(* main(): the output stream is opened, then the prerequisites are         *)
(* checked, then run() is called with the arguments of the command line.   *)
(***************************************************************************)
\* what main() returns when check_prerequisites() returns False
PREREQUISITES_FAILURE == -9

\* the file "--out" names, here in a directory of the tree
OutputFile == MkPath(DirB, <<"o", ".", "t", "x", "t">>)

\* what open(output_filepath, "w") leaves before anything is written
OpenedOutput == [ReportFile EXCEPT !.origin = "output"]

\* the tree holds a file of commands written by an earlier call, or none
InitMain ==
    /\ fs \in {LiveTree,
               Merge(LiveTree, One(OutputFile, [OpenedOutput EXCEPT
                        !.origin = "user", !.mb = 1, !.mtime = 0, !.atime = 0]))}
    /\ args = NoArgs
    /\ pc = "main"
    /\ candidates = <<>>
    /\ again = <<>>
    /\ main_loop_running = TRUE
    /\ sig = FALSE
    /\ listener = "none"
    /\ i = 0
    /\ return_code = 0
    /\ proc = NoProc
    /\ jobs = <<>>
    /\ last = NoJob
    /\ out = <<>>
    /\ result = "none"
    /\ filepath = <<>>
    /\ template = CONVERT_CMD_TEMPLATE
    /\ durations = {COOLDOWN_AFTER_SECONDS + 1}

\* main() up to the call of run(): __handle_args_outputstream, the two
\* asserts, check_prerequisites.  bound: another socket holds the stop port;
\* tools: ffmpeg and mkvpropedit are in PATH.
Main ==
    /\ pc = "main"
    /\ \E arg_output \in {"none", "-", "file"}, arg_output_overwrite \in BOOLEAN,
          arg_just_list \in BOOLEAN, arg_keep \in BOOLEAN,
          arg_abortonerrror \in BOOLEAN, bound \in BOOLEAN, tools \in BOOLEAN :
         LET opened == IF arg_output = "file"
                       THEN Merge(fs, One(OutputFile, OpenedOutput))
                       ELSE fs
             mode == IF arg_just_list THEN "list"
                     ELSE IF arg_output = "none" THEN "run"
                     ELSE "commands"
         IN  IF arg_output = "file" /\ ~arg_output_overwrite
                                    /\ OutputFile \in DOMAIN fs
             THEN /\ pc' = "crashed"
                  /\ result' = "FileExistsError"
                  /\ UNCHANGED <<fs, args>>
             ELSE IF arg_just_list /\ arg_output = "none"
             THEN /\ pc' = "crashed"
                  /\ result' = AssertionError[1]
                  /\ UNCHANGED <<fs, args>>
             ELSE IF bound
             THEN /\ pc' = "refused"
                  /\ result' = PREREQUISITES_FAILURE
                  /\ fs' = opened
                  /\ UNCHANGED args
             ELSE IF ~tools
             THEN /\ pc' = "crashed"
                  /\ result' = "RuntimeError"
                  /\ fs' = opened
                  /\ UNCHANGED args
             ELSE /\ pc' = "idle"
                  /\ fs' = opened
                  /\ args' = [mode |-> mode, keep |-> arg_keep,
                              abortonerrror |-> arg_abortonerrror,
                              create_report |-> TRUE, signalling |-> TRUE]
                  /\ UNCHANGED result
    /\ UNCHANGED <<template, filepath, durations, candidates, again, main_loop_running, sig,
                   listener, i, return_code, proc, jobs, last, out>>

\* run() as main() calls it: with the arguments main() passes
RunFromMain ==
    /\ RunCall
    /\ args' = args

NextMain ==
    \/ Main
    \/ RunFromMain
    \/ LoopExhausted
    \/ LoopStopped
    \/ JobStart
    \/ Encode
    \/ ClassifyFailed
    \/ ClassifyNoGain
    \/ ClassifyDone
    \/ ClassifyTiny
    \/ Finish
    \/ CtrlC
    \/ ListenerCheck
    \/ ListenerAccept
    \/ ListenerFlag
    \/ ListenerTimeout

SpecMain == InitMain /\ [][NextMain]_vars

(***************************************************************************)
(* run() called more than once by one process: the module and its global   *)
(* main_loop_running are loaded once, the locals of run() are new in each  *)
(* call.                                                                   *)
(***************************************************************************)
\* the caller has the result of run() and is about to call it again, with
\* an output stream of its own; the listener thread of the earlier call, if
\* there was one, has ended
CallAgain ==
    /\ pc = "returned"
    /\ listener \in {"none", "exited"}
    /\ pc' = "idle"
    /\ args' = NoArgs
    /\ candidates' = <<>>
    /\ i' = 0
    /\ return_code' = 0
    /\ proc' = NoProc
    /\ jobs' = <<>>
    /\ last' = NoJob
    /\ out' = <<>>
    /\ result' = "none"
    /\ UNCHANGED <<template, filepath, durations, fs, again, main_loop_running,
                   sig, listener>>

\* one video in the root directory
InitAgain == Init /\ fs = Restrict(RunFiles, {MkPath(Root, <<"a", ".", "m", "k", "v">>)})

NextAgain ==
    \/ RunCall
    \/ CallAgain
    \/ LoopExhausted
    \/ LoopStopped
    \/ JobStart
    \/ Encode
    \/ ClassifyFailed
    \/ ClassifyNoGain
    \/ ClassifyDone
    \/ ClassifyTiny
    \/ Finish
    \/ CtrlC
    \/ ListenerCheck
    \/ ListenerAccept
    \/ ListenerFlag
    \/ ListenerTimeout

SpecAgain == InitAgain /\ [][NextAgain]_vars

(***************************************************************************)
(* run() called with any template, on trees with a name that holds the     *)
(* line terminator.                                                        *)
(***************************************************************************)
\* a template without the additional placeholder
TemplateNoAdditional ==
    <<"ffmpeg -i ", "\"", "${", "input", "}", "\"", " ",
      "\"", "${", "output", "}", "\"">>

\* a template that names a file "input" and has no input placeholder
TemplateLiteralInput ==
    <<"ffmpeg -i ", "input", ".mkv ", "${", "additional", "}", " ",
      "\"", "${", "output", "}", "\"">>

\* a template with a fourth placeholder
TemplateExtra ==
    CONVERT_CMD_TEMPLATE \o <<" ", "${", "extra", "}">>

Templates ==
    {CONVERT_CMD_TEMPLATE, TemplateNoAdditional, TemplateLiteralInput,
     TemplateExtra, <<>>}

CommandFiles ==
    Merge(One(MkPath(Root, <<"a">> \o FILENAME_EXTENSION), PlainVideo),
          One(MkPath(DirA, <<"a", "\n", "b">> \o FILENAME_EXTENSION),
              PlainVideo))

CommandTrees ==
    { Restrict(CommandFiles, S) :
        S \in {T \in SUBSET DOMAIN CommandFiles : Cardinality(T) <= MaxFiles} }

InitCommands ==
    /\ fs \in CommandTrees
    /\ template \in Templates
    /\ durations = {COOLDOWN_AFTER_SECONDS + 1}
    /\ args = NoArgs
    /\ pc = "idle"
    /\ candidates = <<>>
    /\ again = <<>>
    /\ main_loop_running = TRUE
    /\ sig = FALSE
    /\ listener = "none"
    /\ i = 0
    /\ return_code = 0
    /\ proc = NoProc
    /\ jobs = <<>>
    /\ last = NoJob
    /\ out = <<>>
    /\ result = "none"
    /\ filepath = <<>>

SpecCommands == InitCommands /\ [][Next]_vars

(***************************************************************************)
(* run() while someone else deletes originals.                             *)
(***************************************************************************)
VanishFiles ==
    Merge(One(MkPath(Root, <<"a">> \o FILENAME_EXTENSION), PlainVideo),
          One(MkPath(DirA, <<"b">> \o FILENAME_EXTENSION),
              [PlainVideo EXCEPT !.mb = 300]))

VanishTrees ==
    { Restrict(VanishFiles, S) :
        S \in {T \in SUBSET DOMAIN VanishFiles : Cardinality(T) <= MaxFiles} }

InitVanish ==
    /\ fs \in VanishTrees
    /\ template = CONVERT_CMD_TEMPLATE
    /\ durations = {COOLDOWN_AFTER_SECONDS + 1}
    /\ filepath = <<>>
    /\ args = NoArgs
    /\ pc = "idle"
    /\ candidates = <<>>
    /\ again = <<>>
    /\ main_loop_running = TRUE
    /\ sig = FALSE
    /\ listener = "none"
    /\ i = 0
    /\ return_code = 0
    /\ proc = NoProc
    /\ jobs = <<>>
    /\ last = NoJob
    /\ out = <<>>
    /\ result = "none"

\* someone deletes the original of the job under way, or of a job still to
\* come, while run() is in its loop
Vanish ==
    /\ pc \in {"loop", "encoding", "classify"}
    /\ \E k \in DOMAIN candidates :
         /\ IF pc = "loop" THEN k > i ELSE k >= i
         /\ candidates[k] \in DOMAIN fs
         /\ fs' = Remove(fs, candidates[k])
    /\ UNCHANGED <<template, filepath, durations, pc, args, candidates, again,
                   main_loop_running, sig, listener, i, return_code, proc,
                   jobs, last, out, result>>

\* the original is deleted after run_conversion_process has read the two
\* sizes and before the branch taken touches it: the tag writer's stat()
\* raises in the no-gain branch, the rename's FileNotFoundError is caught in
\* the done branch, the third branch does not look
VanishMeasured ==
    /\ pc = "classify"
    /\ ~ProcFailed(proc)
    /\ LET src == candidates[i]
           file_mb == get_file_size_mb(fs, src)
           newfile_mb == get_file_size_mb(fs, TargetOf(src))
           gone == Remove(fs, src)
       IN  /\ src \in DOMAIN fs
           /\ fs' = gone
           /\ IF NotSmaller(file_mb, newfile_mb)
              THEN Raise("FileNotFoundError")
              ELSE Account([JobRecord(IF Meaningful(file_mb, newfile_mb)
                                      THEN "missing" ELSE "tiny",
                                      file_mb, newfile_mb, <<>>)
                               EXCEPT !.tree = gone])

NextVanish == Next \/ Vanish \/ VanishMeasured

SpecVanish == InitVanish /\ [][NextVanish]_vars

(***************************************************************************)
(* The naming functions on their own, applied again and again to a name.   *)
(***************************************************************************)
MaxTokens == 4

NameTokens ==
    { <<"a">>, <<".">>, <<"_", "x">>, <<"_", "x", "2", "6", "4">>,
      <<"2", "6", "4">>, FILENAME_MARKER_X265, FILENAME_EXTENSION,
      FILENAME_POSTFIX_DONE }

\* the names made of 1..k tokens
RECURSIVE TokenNames(_)
TokenNames(k) ==
    IF k = 0 THEN {}
    ELSE LET shorter == TokenNames(k - 1)
         IN shorter \cup NameTokens
               \cup {n \o token : n \in shorter, token \in NameTokens}

\* "." and ".." are no file names
FileNamePool == TokenNames(MaxTokens) \ { <<".">>, <<".", ".">> }

InitNames ==
    /\ filepath \in FileNamePool
    /\ pc = "naming"
    /\ last = NoJob
    /\ result = "none"
    /\ fs = <<>>
    /\ template = CONVERT_CMD_TEMPLATE
    /\ durations = {COOLDOWN_AFTER_SECONDS + 1}
    /\ args = NoArgs
    /\ candidates = <<>>
    /\ again = <<>>
    /\ main_loop_running = TRUE
    /\ sig = FALSE
    /\ listener = "none"
    /\ i = 0
    /\ return_code = 0
    /\ proc = NoProc
    /\ jobs = <<>>
    /\ out = <<>>

\* one call of a naming function on the name at hand: the result replaces
\* the name, a raised exception ends the sequence of calls
Apply(function, value) ==
    /\ last' = [branch |-> function, filepath |-> filepath]
    /\ IF IsError(value)
       THEN pc' = "crashed" /\ result' = value[1] /\ UNCHANGED filepath
       ELSE filepath' = value /\ UNCHANGED <<pc, result>>
    /\ UNCHANGED <<fs, template, durations, args, candidates, again, main_loop_running,
                   sig, listener, i, return_code, proc, jobs, out>>

GetFilepathNew ==
    /\ pc = "naming"
    /\ Apply("get_filepath_new", get_filepath_new(filepath))

GetDoneFilename ==
    /\ pc = "naming"
    /\ Apply("_get_done_filename", get_done_filename(filepath))

EliminateX264 ==
    /\ pc = "naming"
    /\ Apply("eliminate_x264", eliminate_x264(filepath))

NextNames == GetFilepathNew \/ GetDoneFilename \/ EliminateX264

SpecNames == InitNames /\ [][NextNames]_vars

(***************************************************************************)
(* Claims about the scan.                                                  *)
(***************************************************************************)
\* a name carries the done suffix when ".x265done" is its final suffix
CarriesDoneSuffix(name) == PathSuffix(name) = FILENAME_POSTFIX_DONE

\* C1: no path returned by find_candidates has a file name that contains the
\* converted marker "_x265" or carries the done suffix ".x265done", whatever
\* the tree, the minimum size, forceencode and skip_mime.
C1_NoMarkedOrDoneCandidate ==
    pc \in {"scanned", "rescanned"} =>
        \A k \in DOMAIN candidates :
            /\ ~Contains(candidates[k].name, FILENAME_MARKER_X265)
            /\ ~CarriesDoneSuffix(candidates[k].name)

\* the order of os.walk with sorted listings: the files of a directory
\* before those of its subdirectories, siblings by name
WalkBefore(p, q) ==
    IF p.dir = q.dir THEN StrLess(p.name, q.name)
    ELSE IF Len(p.dir) < Len(q.dir) /\ SubSeq(q.dir, 1, Len(p.dir)) = p.dir THEN TRUE
    ELSE IF Len(q.dir) < Len(p.dir) /\ SubSeq(p.dir, 1, Len(q.dir)) = q.dir THEN FALSE
    ELSE LET k == CHOOSE n \in 1..Len(p.dir) :
                      /\ p.dir[n] # q.dir[n]
                      /\ \A m \in 1..(n - 1) : p.dir[m] = q.dir[m]
         IN  StrLess(p.dir[k], q.dir[k])

\* C10: two consecutive find_candidates calls with the same arguments on an
\* unmodified tree return the same list in the same order, and that order is
\* the traversal with directories and files sorted at every level.
C10_ScanDeterministic ==
    pc = "rescanned" =>
        /\ again = candidates
        /\ \A j, k \in DOMAIN candidates :
               j < k => WalkBefore(candidates[j], candidates[k])

\* C10 witness: both calls returned at least three files of more than one
\* directory
C10_Witness ==
    /\ pc = "rescanned"
    /\ Len(candidates) >= 3
    /\ \E j, k \in DOMAIN again : again[j].dir # again[k].dir

(***************************************************************************)
(* Claims about the jobs.                                                  *)
(***************************************************************************)
\* the worker stands behind a classified job and no later job has touched
\* the tree
AfterJob == pc \in {"loop", "finish", "returned"} /\ last.branch # "none"

\* the encoder of the last job exited 0
ExitedZero == AfterJob /\ ~ProcFailed(last.proc)

\* the sum of the codes of a list of jobs
RECURSIVE SumCodes(_)
SumCodes(js) == IF js = <<>> THEN 0 ELSE Head(js).code + SumCodes(Tail(js))

\* C2 as the specification words it: a non-zero exit is Failed with code
\* NON_ZERO; exit 0 with produced >= 95 % of the original, the boundary
\* included, is NoGain with code NOT_SMALLER; exit 0 with produced strictly
\* between 5 % and 95 % is Done with code OK.
C2_BucketsAsWorded ==
    AfterJob =>
        IF ProcFailed(last.proc)
        THEN last.branch = "failed" /\ last.code = NON_ZERO
        ELSE /\ 100 * last.newfile_mb >= 95 * last.file_mb
                    => last.branch = "nogain" /\ last.code = NOT_SMALLER
             /\ ( /\ 100 * last.newfile_mb > 5 * last.file_mb
                  /\ 100 * last.newfile_mb < 95 * last.file_mb )
                    => last.branch = "done" /\ last.code = OK

\* C2: a failed or unlaunched encoder is Failed with code NON_ZERO; exit 0
\* with produced > 95 % of the original is NoGain with code NOT_SMALLER; exit
\* 0 with produced strictly between 5 % and 95 % is Done with code OK; at
\* produced = 95 % exactly the double comparison decides: Done for 500.00 MB,
\* NoGain for 3.00 MB; exit 0 with produced below 5 % is none of the three:
\* the job returns OK and does nothing.
C2_Buckets ==
    AfterJob =>
        IF ProcFailed(last.proc)
        THEN last.branch = "failed" /\ last.code = NON_ZERO
        ELSE /\ 100 * last.newfile_mb > 95 * last.file_mb
                    => last.branch = "nogain" /\ last.code = NOT_SMALLER
             /\ ( /\ 100 * last.newfile_mb > 5 * last.file_mb
                  /\ 100 * last.newfile_mb < 95 * last.file_mb )
                    => last.branch = "done" /\ last.code = OK
             /\ 100 * last.newfile_mb = 95 * last.file_mb /\ last.file_mb = 50000
                    => last.branch = "done" /\ last.code = OK
             /\ 100 * last.newfile_mb = 95 * last.file_mb /\ last.file_mb = 300
                    => last.branch = "nogain" /\ last.code = NOT_SMALLER
             /\ 100 * last.newfile_mb < 5 * last.file_mb
                    => last.branch = "tiny" /\ last.code = OK /\ last.ops = <<>>

\* C2 witness: a 500.00 MB original with a product of 475.00 MB was
\* classified
C2_Witness ==
    /\ ExitedZero
    /\ last.file_mb = 50000
    /\ last.newfile_mb = 47500

\* C3 as the specification words it: run() returns the sum of the codes of
\* its jobs, the code being zero for Done and for NoGain and negative for
\* Failed, so that a run of Done and NoGain jobs returns 0.
C3_CodesAsWorded ==
    pc = "returned" /\ args.mode = "run" =>
        /\ result = SumCodes(jobs)
        /\ \A k \in DOMAIN jobs :
              /\ jobs[k].branch \in {"done", "nogain"} => jobs[k].code = 0
              /\ jobs[k].branch \in {"failed", "missing"} => jobs[k].code < 0
        /\ (\A k \in DOMAIN jobs : jobs[k].branch \in {"done", "nogain"})
              => result = 0

\* C3: run() returns the sum of the codes of the jobs it executed; the code
\* is 0 for Done (and for a job that finds the product too small to act),
\* -2 for NoGain and negative for every Failed variant, so a run whose jobs
\* all end Done returns 0 and a run with a NoGain job returns less than 0.
C3_Codes ==
    pc = "returned" /\ args.mode = "run" =>
        /\ result = SumCodes(jobs)
        /\ \A k \in DOMAIN jobs :
              /\ jobs[k].branch \in {"done", "tiny"} => jobs[k].code = 0
              /\ jobs[k].branch = "nogain" => jobs[k].code = -2
              /\ jobs[k].branch \in {"failed", "missing"} => jobs[k].code < 0
        /\ (\A k \in DOMAIN jobs : jobs[k].branch = "done") => result = 0
        /\ (\E k \in DOMAIN jobs : jobs[k].branch = "nogain") => result < 0

\* C3 witness: run() returned after a NoGain job and a failed one
C3_Witness ==
    /\ pc = "returned"
    /\ Len(jobs) = 2
    /\ jobs[1].branch = "nogain"
    /\ jobs[2].branch = "failed"
    /\ result = -3

\* the paths a finished job leaves its marks on
MarkedPaths(src) == {DoneOf(src), NoGainOf(src), TargetOf(src), ReportOf(src)}

\* C4: once a job has ended Done or NoGain, no later find_candidates call on
\* the tree, whatever its flags, returns the renamed original, the target
\* or the report file of that job.
C4_NeverReconsidered ==
    pc = "rescanned" =>
        \A j \in DOMAIN jobs :
            jobs[j].branch \in {"done", "nogain"} =>
                \A k \in DOMAIN again : again[k] \notin MarkedPaths(jobs[j].src)

\* the done path as the specification words it: the original name with
\* ".x265done" appended
Appended(p) == MkPath(p.dir, p.name \o FILENAME_POSTFIX_DONE)

\* C5: when the encoder exits 0 and the product is between 5 % and 95 % of
\* the original, the original is renamed to its name + ".x265done", then the
\* tag writer is run on the target (which carries the encoder-settings tag
\* when the writer succeeds), the target stays, and the job's code is 0.
C5_DoneEffects ==
    ( /\ ExitedZero
      /\ 100 * last.newfile_mb > 5 * last.file_mb
      /\ 100 * last.newfile_mb < 95 * last.file_mb ) =>
        /\ last.src \notin DOMAIN fs
        /\ Appended(last.src) \in DOMAIN fs
        /\ fs[Appended(last.src)] = last.tree[last.src]
        /\ Len(last.ops) = 2
        /\ last.ops[1] = "rename original"
        /\ last.ops[2] \in {"tag target", "tag target fails"}
        /\ last.target \in DOMAIN fs
        /\ fs[last.target].mb = last.newfile_mb
        /\ last.ops[2] = "tag target" => ENCODER_SETTINGS \in fs[last.target].tags
        /\ DOMAIN fs = (DOMAIN last.tree \ {last.src}) \cup {Appended(last.src)}
        /\ last.code = 0
        /\ jobs[Len(jobs)].code = 0

\* C5 witness: a Done job whose tag was written
C5_Witness ==
    /\ AfterJob
    /\ last.branch = "done"
    /\ last.ops = << "rename original", "tag target" >>

\* the no-gain path as the specification words it: the marker inserted
\* before the extension
Inserted(p) ==
    MkPath(p.dir, PathStem(p.name) \o FILENAME_MARKER_NOGAIN \o PathSuffix(p.name))

\* C6: when the encoder exits 0 and the product is larger than 95 % of the
\* original, the tag writer is run on the original (which carries the
\* do-not-retry tag when the writer succeeds) and the original's access and
\* modification times are what they were; then the original is renamed with
\* "_x265nogain" before its extension; the target is deleted if and only if
\* keep is not set.
C6_NoGainEffects ==
    ( /\ ExitedZero
      /\ 100 * last.newfile_mb > 95 * last.file_mb ) =>
        LET before == last.tree[last.src]
            now == fs[Inserted(last.src)]
        IN  /\ last.src \notin DOMAIN fs
            /\ Inserted(last.src) \in DOMAIN fs
            /\ now.atime = before.atime
            /\ now.mtime = before.mtime
            /\ [now EXCEPT !.tags = before.tags] = before
            /\ Len(last.ops) >= 3
            /\ last.ops[1] \in {"tag original", "tag original fails"}
            /\ last.ops[1] = "tag original" => MKV_METADATA_X265NOGAIN \in now.tags
            /\ last.ops[2] = "restore times"
            /\ last.ops[3] = "rename original"
            /\ last.target \in DOMAIN last.tree
            /\ last.target \in DOMAIN fs <=> last.keep
            /\ DOMAIN fs = ((DOMAIN last.tree \ {last.src}) \cup {Inserted(last.src)})
                              \ (IF last.keep THEN {} ELSE {last.target})

\* C6 witness: a NoGain job whose tag was written and whose target was
\* deleted
C6_Witness ==
    /\ AfterJob
    /\ last.branch = "nogain"
    /\ last.ops[1] = "tag original"
    /\ ~last.keep
    /\ last.target \notin DOMAIN fs

\* C7: when the encoder exits non-zero or cannot be launched, the job
\* returns a negative code; the target is deleted if it exists and keep is
\* not set, a failing deletion being logged and not raised; everything else,
\* the original included, is as it was.
C7_FailedEffects ==
    (AfterJob /\ ProcFailed(last.proc)) =>
        /\ last.code < 0
        /\ jobs[Len(jobs)].code < 0
        /\ IF last.target \in DOMAIN last.tree /\ ~last.keep
           THEN \/ last.ops = << "remove target" >> /\ fs = Remove(last.tree, last.target)
                \/ last.ops = << "remove target fails" >> /\ fs = last.tree
           ELSE last.ops = <<>> /\ fs = last.tree
        /\ last.src # last.target
        /\ last.src \in DOMAIN last.tree =>
              last.src \in DOMAIN fs /\ fs[last.src] = last.tree[last.src]

\* C7 witness: a failed job whose left-over target was removed
C7_Witness ==
    /\ AfterJob
    /\ ProcFailed(last.proc)
    /\ last.ops = << "remove target" >>
    /\ last.src \in DOMAIN fs

\* C8: when the flag is cleared while the worker stands between job k and
\* job k+1, the worker's next step leaves the loop without starting a job or
\* touching the tree; behind the loop the jobs are exactly the k completed
\* ones, and run() returns the sum of their codes.
C8_StopBetweenJobs ==
    /\ [][ (pc = "loop" /\ ~main_loop_running /\ pc' # pc) =>
               /\ pc' = "finish"
               /\ jobs' = jobs
               /\ i' = i
               /\ fs' = fs
               /\ return_code' = return_code ]_vars
    /\ [][ pc = "finish" => pc' \in {"finish", "returned"} /\ jobs' = jobs ]_vars
    /\ [](pc \in {"finish", "returned"} =>
               /\ Len(jobs) = i
               /\ return_code = SumCodes(jobs))
    /\ [](pc = "returned" /\ args.mode = "run" => result = SumCodes(jobs))

\* C8 witness: run() returned with some but not all jobs done although
\* abortonerrror was not set
C8_Witness ==
    /\ pc = "returned"
    /\ ~args.abortonerrror
    /\ Len(jobs) >= 1
    /\ Len(jobs) < Len(candidates)
    /\ result = SumCodes(jobs)

\* C9: with abortonerrror, as soon as the sum is non-zero after a job the
\* loop is left and no further job starts; without it no job's code ends the
\* loop, which is left only when the commands are exhausted or the flag is
\* cleared.
C9_AbortOnError ==
    /\ [][ (pc = "classify" /\ pc' \in {"loop", "finish"}) =>
               (pc' = "finish" <=> (args.abortonerrror /\ return_code' # 0)) ]_vars
    /\ [][ (pc = "loop" /\ pc' = "finish") =>
               (i = Len(candidates) \/ ~main_loop_running) ]_vars
    /\ [][ pc = "finish" => pc' \in {"finish", "returned"} /\ jobs' = jobs ]_vars
    /\ [][ (pc = "loop" /\ pc' # pc /\ main_loop_running /\ i < Len(candidates)) =>
               pc' = "encoding" /\ i' = i + 1 ]_vars

\* C9 witness: with abortonerrror, run() returned after a first job that
\* failed, a candidate left unattempted and the flag never cleared
C9_Witness ==
    /\ pc = "returned"
    /\ args.abortonerrror
    /\ ~args.signalling
    /\ Len(jobs) = 1
    /\ jobs[1].branch = "failed"
    /\ Len(candidates) = 2

(***************************************************************************)
(* The reporting modes.                                                    *)
(***************************************************************************)
\* run() was called with just_list or with an output stream
Reporting == args.mode \in {"list", "commands"}

\* C11: in list-only and commands-only mode run() starts no encoder, no
\* listener and no signal handler, changes no file and returns 0; the stream
\* then holds one line per candidate, in scan order: the candidate's absolute
\* path in list-only mode, its substituted command in commands-only mode
\* (stated for the default template).
C11_ReportingModes ==
    /\ [](Reporting /\ template = CONVERT_CMD_TEMPLATE =>
            /\ proc = NoProc /\ jobs = <<>> /\ last = NoJob
            /\ listener = "none" /\ ~sig /\ main_loop_running
            /\ pc \in {"returned", "rescanned"} /\ result = 0
            /\ Len(Lines(out)) = Len(candidates)
            /\ \A k \in DOMAIN candidates :
                 Lines(out)[k] =
                    IF args.mode = "list" THEN PathStr(Absolute(candidates[k]))
                    ELSE get_command(ConversionCommand(template, candidates[k])))
    /\ [][Reporting' => fs' = fs]_vars

\* C12: the lines of a list-only run, each read back as a path and given to
\* ConversionCommand with the template of the run, render line for line the
\* stream a commands-only run writes for the same candidates.
C12_RoundTrip ==
    pc = "returned" /\ args.mode = "list"
    /\ template = CONVERT_CMD_TEMPLATE =>
        LET listed == Lines(out)
            rebuilt == [k \in DOMAIN listed |->
                          get_command(ConversionCommand(template,
                                                        PathOf(listed[k])))]
            commands == [k \in DOMAIN candidates |->
                           ConversionCommand(template, candidates[k])]
        IN rebuilt = Lines(WriteCommands(<<>>, commands).out)

(***************************************************************************)
(* The naming functions.                                                   *)
(***************************************************************************)
\* the call made last was this function, on a name with the converted marker
NewOfMarked ==
    /\ last.branch = "get_filepath_new"
    /\ check_has_mark(last.filepath, FILENAME_MARKER_X265)

\* C13 as worded: get_filepath_new applied to a name that contains the
\* converted marker returns that name unchanged, extension included.
C13_MarkedUnchangedAsWorded ==
    NewOfMarked => pc = "naming" /\ filepath = last.filepath

\* C13: get_filepath_new applied to a name that contains the converted
\* marker adds no marker and forces no extension: it returns the name with
\* the legacy tokens erased from its stem, which is the name itself,
\* extension included, when the stem holds no legacy token.
C13_MarkedUnchanged ==
    NewOfMarked =>
        /\ pc = "naming"
        /\ filepath = eliminate_x264(last.filepath)
        /\ ReSub264(PathStem(last.filepath)) = PathStem(last.filepath)
              => filepath = last.filepath

C13_Witness ==
    /\ NewOfMarked
    /\ filepath = last.filepath
    /\ PathSuffix(filepath) = FILENAME_POSTFIX_DONE

\* s holds a legacy token: a separator followed by x264, h264 or H264
HasToken(s) ==
    \E k \in 1..(Len(s) - 4) :
        /\ s[k] \in {" ", ".", "_", "-"}
        /\ s[k + 1] \in {"x", "h", "H"}
        /\ SubSeq(s, k + 2, k + 4) = <<"2", "6", "4">>

\* the call made last was eliminate_x264 and it returned
Eliminated == last.branch = "eliminate_x264" /\ pc = "naming"

\* C14 as worded: eliminate_x264 is idempotent, and one application leaves
\* no legacy token in the stem of its result.
C14_EliminateIdempotentAsWorded ==
    Eliminated =>
        /\ eliminate_x264(filepath) = filepath
        /\ ~HasToken(PathStem(filepath))

\* C14: one application of eliminate_x264 erases the legacy tokens one pass
\* over the stem finds and keeps the suffix: a name whose stem holds none is
\* returned unchanged, any other name gets shorter; a second application
\* changes nothing when the stem of the result holds no token (a token put
\* together by the erasure, as in a_x_x264264, is left in the result).
C14_EliminateOnePass ==
    Eliminated =>
        /\ filepath = ReSub264(PathStem(last.filepath)) \o PathSuffix(last.filepath)
        /\ HasToken(PathStem(last.filepath)) => Len(filepath) < Len(last.filepath)
        /\ ~HasToken(PathStem(last.filepath)) => filepath = last.filepath
        /\ ~HasToken(PathStem(filepath)) => eliminate_x264(filepath) = filepath

C14_Witness ==
    /\ Eliminated
    /\ HasToken(PathStem(last.filepath))
    /\ filepath # last.filepath
    /\ eliminate_x264(filepath) = filepath

\* the places where the done suffix starts in the name
DonePlaces(name) ==
    {k \in DOMAIN name : StartsAt(name, FILENAME_POSTFIX_DONE, k)}

\* the number of done suffixes: the places where the next character, if
\* any, starts another suffix
DoneSuffixes(name) ==
    Cardinality({k \in DonePlaces(name) :
                    LET next == k + Len(FILENAME_POSTFIX_DONE)
                    IN next > Len(name) \/ name[next] = "."})

\* C15: _get_done_filename appends the done suffix to the full name when the
\* name does not carry it and returns the name unchanged when it does; it is
\* idempotent, and no sequence of applications yields a name with more than
\* one done suffix.
C15_DoneOnce ==
    last.branch = "_get_done_filename" /\ pc = "naming" =>
        /\ DonePlaces(last.filepath) = {}
              => filepath = last.filepath \o FILENAME_POSTFIX_DONE
        /\ CarriesDoneSuffix(last.filepath) => filepath = last.filepath
        /\ get_done_filename(filepath) = filepath
        /\ DoneSuffixes(last.filepath) <= 1 => DoneSuffixes(filepath) <= 1

(***************************************************************************)
(* Templates.                                                              *)
(***************************************************************************)
\* the template text holds the placeholder of this name
HasPlaceholder(tpl, name) ==
    \E k \in 1..(Len(tpl) - 2) :
        tpl[k] = "${" /\ tpl[k + 1] = name /\ tpl[k + 2] = "}"

Malformed(tpl) ==
    \E name \in {"input", "output", "additional"} : ~HasPlaceholder(tpl, name)

\* C16: a template that lacks one of the placeholders input, output and
\* additional fails at the construction of the commands: a run that has
\* candidates and is not list-only ends there with the AssertionError,
\* before any encoder is started and before any file is changed.
C16_MalformedTemplate ==
    /\ [](Malformed(template) /\ args.mode \in {"run", "commands"}
            /\ candidates # <<>> =>
              /\ pc = "crashed" /\ result = AssertionError[1]
              /\ proc = NoProc /\ jobs = <<>> /\ out = <<>>)
    /\ [][Malformed(template) => fs' = fs]_vars

(***************************************************************************)
(* Failures during the scan.                                               *)
(***************************************************************************)
\* why the scan of the state skips p, or "candidate"
ScanReason(p) ==
    SkipReason(fs, p, args.min_file_size_mb, args.forceencode, args.skip_mime)

Returned(p) == \E k \in DOMAIN candidates : candidates[k] = p

\* C17: a failure while one file is examined (no size for a broken link, an
\* error of the type check, an error of the media probe) does not end
\* find_candidates: the call returns, the file is not in the list, and every
\* file that passes all the tests is, the files met after the failing one
\* included.
C17_ScanSurvivesFailures ==
    pc \in {"scanned", "rescanned"} =>
        \A p \in DOMAIN fs :
            /\ ScanReason(p) \in ScanFailures => ~Returned(p)
            /\ ScanReason(p) = "candidate" => Returned(p)

\* C17 witness: the scan returned a file it met after a file it could not
\* examine
C17_Witness ==
    /\ pc = "scanned"
    /\ \E p, q \in DOMAIN fs :
          /\ ScanReason(p) \in ScanFailures
          /\ WalkBefore(p, q)
          /\ Returned(q)

(***************************************************************************)
(* The stop flag.                                                          *)
(***************************************************************************)
\* C18: within a run the flag only falls: once main_loop_running is False
\* (set by the handler, by the listener or at the end of the loop) no step
\* of the worker, of the handler or of the listener makes it True again.
C18_FlagMonotonic == [][~main_loop_running => ~main_loop_running']_vars

\* C18 witness: the flag fell before the last candidate, and the run and
\* the listener have ended since, the flag still down
C18_Witness ==
    /\ ~main_loop_running
    /\ pc = "returned"
    /\ listener = "exited"
    /\ Len(jobs) < Len(candidates)

\* a job is under way: the encoder is supervised or its result classified
JobUnderWay == pc \in {"encoding", "classify"}

\* C19: the flag falling while job k is under way changes nothing of the
\* job; with the flag down the job goes on to its classification, gets the
\* outcome and the effects the rules give, and is accounted; the flag is
\* acted on at the check before job k+1, which then does not start.  (The
\* exit of the encoder is any outcome here, whatever signals reach it.)
C19_CancelBetweenJobs ==
    /\ [][ (JobUnderWay /\ main_loop_running /\ ~main_loop_running') =>
               /\ pc' = pc /\ proc' = proc /\ fs' = fs /\ jobs' = jobs
               /\ i' = i /\ return_code' = return_code /\ last' = last ]_vars
    /\ [][ (pc = "encoding" /\ ~main_loop_running /\ pc' # pc) =>
               pc' = "classify" /\ i' = i ]_vars
    /\ [][ (pc = "classify" /\ ~main_loop_running /\ pc' # pc) =>
               /\ pc' \in {"loop", "finish"}
               /\ jobs' = Append(jobs, [src |-> candidates[i],
                                        branch |-> last'.branch,
                                        code |-> last'.code])
               /\ return_code' = return_code + last'.code
               /\ pc' = "finish" => args.abortonerrror /\ return_code' < 0 ]_vars
    /\ [](AfterJob /\ ~main_loop_running =>
               /\ C2_Buckets
               /\ C5_DoneEffects /\ C6_NoGainEffects /\ C7_FailedEffects)
    /\ [][ (pc = "loop" /\ ~main_loop_running /\ pc' # pc) =>
               pc' = "finish" /\ i' = i /\ jobs' = jobs /\ fs' = fs ]_vars

\* C19 witness: the flag fell while the first of two jobs was under way, and
\* the encoder was supervised to its exit 0 all the same; the job is about
\* to be classified
C19_Witness ==
    /\ pc = "classify"
    /\ ~main_loop_running
    /\ ~ProcFailed(proc)
    /\ i = 1
    /\ Len(candidates) = 2

(***************************************************************************)
(* Originals that vanish.                                                  *)
(***************************************************************************)
\* C20: whenever the original vanishes after the scan selected it and
\* before its classification finishes, run_conversion_process returns a
\* Failed code: no exception leaves run(), and the job is accounted with a
\* negative code.
C20_VanishedIsFailed ==
    /\ pc # "crashed"
    /\ (AfterJob /\ last.src \notin DOMAIN last.tree) =>
          last.code < 0 /\ jobs[Len(jobs)].code < 0

(***************************************************************************)
(* C21.  The listener protocol.  A connection accepted on the stop port    *)
(* clears main_loop_running whatever the peer sends: the listener leaves   *)
(* the state it is in after accept() only with the flag False, and it does *)
(* leave it.  A timeout of accept() sends the listener back to its outer   *)
(* loop, where, with the flag still True, it opens the port again and      *)
(* accepts again.  And if from some point on no connection is accepted,    *)
(* a listener that runs while the flag is False ends.                      *)
(***************************************************************************)
ListenerRuns == listener \in {"check", "accepting", "connected"}

C21_ListenerProtocol ==
    /\ [][listener = "connected" /\ listener' # "connected"
            => ~main_loop_running']_vars
    /\ (listener = "connected") ~> ~main_loop_running
    /\ [][listener = "accepting" /\ listener' \notin {"accepting", "connected"}
            => listener' = "check"]_vars
    /\ [][listener = "check" /\ main_loop_running /\ listener' # "check"
            => listener' = "accepting"]_vars
    /\ (listener = "check" /\ main_loop_running)
            ~> (listener = "accepting" \/ ~main_loop_running)
    /\ \/ []<><<ListenerAccept>>_vars
       \/ (ListenerRuns /\ ~main_loop_running) ~> (listener = "exited")

\* the listener has ended while the worker is still in a job: the flag fell
\* during the run, and the thread left through a timeout and its outer loop
C21_Witness ==
    /\ listener = "exited"
    /\ pc \in {"encoding", "classify"}
    /\ ~main_loop_running

(***************************************************************************)
(* C22.  When main() finds the stop port bound, it returns -9 and nothing  *)
(* has been scanned, no job has been started and no file has changed.      *)
(***************************************************************************)
C22_BusyPortChangesNothing ==
    [][pc = "main" /\ pc' = "refused"
        => /\ result' = PREREQUISITES_FAILURE
           /\ fs' = fs
           /\ candidates' = <<>>
           /\ jobs' = <<>>
           /\ out' = <<>>]_vars

(***************************************************************************)
(* C23.  As worded: a job sleeps to cool down only if it was classified    *)
(* Done (its original renamed, its target tagged), its original is larger  *)
(* than 100 MB and its encode took longer than 120 seconds.                *)
(***************************************************************************)
C23_CooldownAsWorded ==
    (last # NoJob) =>
        (last.slept =>
            /\ last.branch = "done"
            /\ last.ops # <<>>
            /\ last.file_mb > 100 * 100
            /\ last.proc.seconds > COOLDOWN_AFTER_SECONDS)

(***************************************************************************)
(* C23.  A job sleeps to cool down exactly when it reaches the end of      *)
(* run_conversion_process (it was classified Done, or its product was at   *)
(* or below 5 % of the original and nothing was renamed or tagged), its    *)
(* original is larger than 100 MB and its encode took longer than 120      *)
(* seconds.  Such a job returns OK after an encoder that exited 0: no      *)
(* NoGain job, no Failed job and no job that missed its original sleeps.   *)
(***************************************************************************)
C23_Cooldown ==
    (last # NoJob) =>
        /\ last.slept <=> /\ last.branch \in {"done", "tiny"}
                          /\ last.file_mb > 100 * 100
                          /\ last.proc.seconds > COOLDOWN_AFTER_SECONDS
        /\ last.slept => /\ last.code = OK
                         /\ ~ProcFailed(last.proc)
                         /\ last.branch \notin {"nogain", "failed", "missing"}

\* a job of a 500 MB original whose encode took 121 seconds and left less
\* than 5 %: nothing renamed, nothing tagged, and the job has slept
C23_Witness ==
    /\ last # NoJob
    /\ last.branch = "tiny"
    /\ last.ops = <<>>
    /\ last.slept
    /\ last.file_mb = 500 * 100
    /\ last.proc.seconds = COOLDOWN_AFTER_SECONDS + 1

(***************************************************************************)
(* C24.  every scan that took the source of the last job as a candidate    *)
(* takes it again on the tree as it is now                                 *)
(***************************************************************************)
SelectedAgain ==
    \A m \in MinSizes, f \in BOOLEAN, s \in BOOLEAN :
        SkipReason(last.tree, last.src, m, f, s) = "candidate" =>
            \A found \in find_candidates(fs, m, f, s) :
                \E k \in DOMAIN found : found[k] = last.src

\* the job the worker stands behind touched nothing and returned OK
Untouched ==
    /\ last.branch = "tiny"
    /\ last.ops = <<>>
    /\ fs = last.tree
    /\ last.code = OK
    /\ jobs[Len(jobs)].code = 0
    /\ SelectedAgain

(***************************************************************************)
(* C24 as worded: after an encoder that exited 0 with a product at or      *)
(* below 5 % of the original (a missing target reads as -1), the job has   *)
(* renamed, tagged and deleted nothing, has returned 0, and a next scan    *)
(* selects the original again.                                             *)
(***************************************************************************)
C24_TinyAsWorded ==
    (ExitedZero /\ 100 * last.newfile_mb <= 5 * last.file_mb) => Untouched

(***************************************************************************)
(* C24.  The same for a product below 5 % of the original, and for one of  *)
(* exactly 5 % when the double file_mb * 0.05 is not below the exact       *)
(* product; the sizes are those get_file_size_mb reads, in hundredths of a *)
(* MB.  (At exactly 5 % of 2.80 MB the job is Done.)                       *)
(***************************************************************************)
C24_Tiny ==
    (/\ ExitedZero
     /\ \/ 100 * last.newfile_mb < 5 * last.file_mb
        \/ /\ 100 * last.newfile_mb = 5 * last.file_mb
           /\ last.file_mb \notin RoundsBelow05) => Untouched

\* a job of the 500 MB original that left exactly 25 MB, and has touched
\* nothing
C24_Witness ==
    /\ ExitedZero
    /\ last.file_mb = 500 * 100
    /\ last.newfile_mb = 25 * 100
    /\ last.target \in DOMAIN fs
    /\ Untouched

(***************************************************************************)
(* C25.  No job deletes original content: at every moment of a run, each  *)
(* candidate's content is in the tree under exactly one of its original    *)
(* name, its done name and its no-gain name.                               *)
(***************************************************************************)
InRun == pc \in {"loop", "encoding", "classify", "finish", "returned"}

\* the names under which the content of a candidate may be kept
KeptNames(src) == {src, DoneOf(src), NoGainOf(src)}

C25_OriginalsKept ==
    InRun =>
        \A k \in DOMAIN candidates :
            Cardinality({q \in KeptNames(candidates[k]) \cap DOMAIN fs :
                            fs[q].origin = "user"}) = 1

(***************************************************************************)
(* C26.  The target written by a job that ended Done is still in the tree  *)
(* at every later moment of the run, and no two candidates of a scan have  *)
(* the same target path.                                                   *)
(***************************************************************************)
C26_DoneTargetsKept ==
    InRun =>
        /\ \A k \in DOMAIN jobs :
               jobs[k].branch = "done" => TargetOf(jobs[k].src) \in DOMAIN fs
        /\ \A j, k \in DOMAIN candidates :
               j # k => TargetOf(candidates[j]) # TargetOf(candidates[k])

(***************************************************************************)
(* C27.  For every path find_candidates returns, the target derived from   *)
(* it has the converted marker "_x265" in its name, ends with ".mkv", lies *)
(* in the directory of the source, and is neither the source nor its done  *)
(* path.                                                                   *)
(***************************************************************************)
C27_TargetWellFormed ==
    pc \in {"scanned", "rescanned"} =>
        \A k \in DOMAIN candidates :
            LET src == candidates[k]
                target == TargetOf(src)
            IN  /\ Contains(target.name, FILENAME_MARKER_X265)
                /\ EndsWith(target.name, FILENAME_EXTENSION)
                /\ target.dir = src.dir
                /\ target # src
                /\ target # DoneOf(src)

(***************************************************************************)
(* C28.  run()'s aggregate code is never positive and no job raises it.    *)
(* It is the sum of the codes of the jobs executed, so run() returns 0 if  *)
(* and only if every job it executed returned 0.  With abortonerrror a job *)
(* with a code other than 0 is the last job executed: the loop is left     *)
(* right after it.                                                         *)
(***************************************************************************)
C28_Aggregate ==
    /\ [](return_code <= 0)
    /\ [][return_code' <= return_code]_vars
    /\ [](InRun => return_code = SumCodes(jobs))
    /\ [](pc = "returned" =>
             (result = 0 <=> \A k \in DOMAIN jobs : jobs[k].code = 0))
    /\ [](InRun /\ args.abortonerrror =>
             \A k \in DOMAIN jobs :
                 jobs[k].code # 0 => k = Len(jobs) /\ pc \in {"finish", "returned"})

\* a run without abortonerrror has returned -3 after a NoGain job and a
\* Failed job
C28_Witness ==
    /\ pc = "returned"
    /\ ~args.abortonerrror
    /\ Len(jobs) = 2
    /\ jobs[1].code = NOT_SMALLER
    /\ jobs[2].code = NON_ZERO
    /\ result = NOT_SMALLER + NON_ZERO

(***************************************************************************)
(* C29.  With encoders that close their stream and exit, a run() that has  *)
(* entered its loop returns, whatever the listener thread does: the join   *)
(* waits for it no longer than its timeout.  Until then one encoder at     *)
(* most is under way, and the jobs done are the jobs of the first          *)
(* candidates, one each, in the order of the scan; and at its last step    *)
(* run() can return in whatever state the listener thread is.              *)
(***************************************************************************)
C29_RunReturns ==
    /\ (pc \in {"loop", "encoding", "classify", "finish"}) ~> (pc = "returned")
    /\ [](InRun => /\ Len(jobs) <= Len(candidates)
                   /\ \A k \in DOMAIN jobs : jobs[k].src = candidates[k])
    /\ [](proc # NoProc => pc = "classify" /\ i = Len(jobs) + 1)
    /\ [][proc # NoProc /\ proc' # NoProc => proc' = proc]_vars
    /\ [](pc = "finish" => ENABLED Finish)

\* run() has returned after both jobs while the listener thread is still
\* in accept(): the join timed out
C29_Witness ==
    /\ pc = "returned"
    /\ Len(jobs) = 2
    /\ result = return_code
    /\ listener = "accepting"

(***************************************************************************)
(* C30.  A run() with signalling that is called after an earlier run with  *)
(* signalling has returned enters its loop with main_loop_running True:    *)
(* the flag the earlier run left does not stop the loop before the first   *)
(* job of this run.                                                        *)
(***************************************************************************)
C30_SecondRunStartsJobs ==
    [][/\ pc = "idle"
       /\ sig
       /\ pc' = "loop"
       /\ args'.signalling
       => main_loop_running']_vars

====
